---------------------------- MODULE Spec2Model ----------------------------
(***************************************************************************)
(* A model of bao-tree's src/bao_tree/mod.rs: the tree geometry, the       *)
(* post-order outboard producer, the selective encoder and the verified    *)
(* decoders.                                                               *)
(*                                                                         *)
(* Hashes are symbolic terms (free constructors, hence collision free):    *)
(*   <<"chunk", counter, bytes, is_root>>   ChunkState::finalize           *)
(*   <<"parent", left, right, is_root>>     parent_cv                      *)
(*   <<"junk", bytes>>                      Hash::from of 32 bytes that    *)
(*                                          are not one hash's encoding    *)
(* Byte strings are sequences of segments [k, t, lo, hi]: bytes lo..hi-1   *)
(* of a source (the data blob, the 32 bytes of a hash t, bytes an          *)
(* adversary altered) or one literal byte of value lo.                     *)
(***************************************************************************)
EXTENDS Integers, Sequences, FiniteSets, TLC

VARIABLES
    size,             \* BaoTree.size: the length of the data, in bytes
    chunk_group_log,  \* BaoTree.chunk_group_log
    ranges,           \* the queried chunk ranges (boundaries of a RangeSet2)
    split_keeps_end,  \* which of the two zero-copy RangeSetRef::split variants
    canon,            \* canonicalisation: [pc, once, twice]
    prod,             \* outboard producer: [pc, i, stack, data, outboard, hash, blake3]
    encoded,          \* the encoded stream handed to the decoder
    tamper,           \* what was done to the stream: [kind, at]
    dec,              \* decoder: [pc, variant, root, res, target, checked, ops,
                      \*           stack, unread]
    trav,             \* tree walks and leaf geometry: [pc, nodes, infos, min_level,
                      \*                                leaf, range]
    num               \* the block count at full width: [pc, checks, size, blocks]

vars == <<size, chunk_group_log, ranges, split_keeps_end, canon, prod,
          encoded, tamper, dec, trav, num>>

-----------------------------------------------------------------------------
(* Bounds of the model *)

\* data lengths are k * 1024 + t for k in 0..MaxChunks and t in Tails
MaxChunks == 6
\* chunk_group_log ranges over 0..MaxGroupLog
MaxGroupLog == 2
\* range sets have at most MaxBoundaries boundaries ...
MaxBoundaries == 3
\* ... each at most MaxChunks + RangeSlack
RangeSlack == 2
\* the encode/decode runs: blobs of at most CodecChunks whole chunks plus a
\* tail, chunk_group_log in 0..CodecGroupLog, queries of at most
\* CodecBoundaries boundaries, each at most CodecChunks + CodecSlack
CodecChunks == 5
CodecGroupLog == 1
CodecBoundaries == 3
CodecSlack == 1
\* the selective walk is taken with min_level in 0..MaxMinLevel
MaxMinLevel == 3
\* the block count at full width: chunk_group_log in 0..MaxGroupExp
MaxGroupExp == 63
\* the runs over a damaged stream: at most TamperChunks whole chunks plus a
\* tail, queries of at most TamperBoundaries boundaries
TamperChunks == 3
TamperBoundaries == 2
\* where a stream is cut inside its 8-byte size header
HeaderCut == 4

\* blake3::guts::CHUNK_LEN = 1 << 10
CHUNK_SHIFT == 10

-----------------------------------------------------------------------------
(* Integer helpers: the bit operations of u64 the code uses *)

RECURSIVE Pow2(_)
Pow2(k) == IF k <= 0 THEN 1 ELSE 2 * Pow2(k - 1)

Min(a, b) == IF a <= b THEN a ELSE b
Max(a, b) == IF a >= b THEN a ELSE b

\* u64::saturating_sub
saturating_sub(a, b) == IF a >= b THEN a - b ELSE 0

\* (!n).trailing_zeros(): the number of trailing one bits of n
RECURSIVE trailing_ones(_)
trailing_ones(n) == IF n % 2 = 1 THEN 1 + trailing_ones(n \div 2) ELSE 0

\* u64::count_ones
RECURSIVE count_ones(_)
count_ones(n) == IF n = 0 THEN 0 ELSE (n % 2) + count_ones(n \div 2)

\* u64::next_power_of_two: the smallest power of two >= n (1 for n = 0)
RECURSIVE npo2_from(_, _)
npo2_from(p, n) == IF p >= n THEN p ELSE npo2_from(2 * p, n)
next_power_of_two(n) == npo2_from(1, n)

\* Option<T>
None == <<>>
Some(x) == <<x>>
IsSome(o) == Len(o) = 1
Unwrap(o) == o[1]

-----------------------------------------------------------------------------
(* TreeNode: the index algebra *)

\* TreeNode::level
level(n) == trailing_ones(n)

\* TreeNode::is_leaf
is_leaf(n) == level(n) = 0

\* TreeNode::mid, in blocks
mid(n) == n + 1

\* TreeNode::block_range0: <<start, end>>
block_range(n) ==
    LET span == Pow2(level(n))
    IN  <<mid(n) - span, mid(n) + span>>

\* TreeNode::byte_range: <<start, end>>
byte_range(n, g) ==
    LET shift == CHUNK_SHIFT + g
    IN  <<block_range(n)[1] * Pow2(shift), block_range(n)[2] * Pow2(shift)>>

\* TreeNode::left_child0
left_child(n) ==
    IF level(n) = 0 THEN None ELSE Some(n - Pow2(level(n) - 1))

\* TreeNode::right_child0
right_child(n) ==
    IF level(n) = 0 THEN None ELSE Some(n + Pow2(level(n) - 1))

\* TreeNode::right_descendant: the right child, then left while it is >= len
RECURSIVE descend_left(_, _)
descend_left(node, len) ==
    IF node < len THEN Some(node)
    ELSE IF left_child(node) = None THEN None
    ELSE descend_left(Unwrap(left_child(node)), len)

right_descendant(n, len) ==
    IF right_child(n) = None THEN None
    ELSE descend_left(Unwrap(right_child(n)), len)

\* TreeNode::count_below
count_below(n) == Pow2(level(n) + 1) - 2

\* TreeNode::next_left_ancestor0: ((i + 1) & !(1 << level)).checked_sub(1)
next_left_ancestor0(n) ==
    LET lvl == level(n)
        \* level is the lowest clear bit of n, so bit level of n + 1 is set
        cleared == (n + 1) - Pow2(lvl)
    IN  IF cleared >= 1 THEN Some(cleared - 1) ELSE None

\* TreeNode::right_count
right_count(n) == count_ones(n + 1) - 1

\* TreeNode::post_order_offset0
node_post_order_offset(n) ==
    LET below_me == count_below(n)
        nla == next_left_ancestor0(n)
    IN  IF IsSome(nla)
        THEN below_me + Unwrap(nla) + 1 - count_ones(Unwrap(nla) + 1)
        ELSE below_me

\* TreeNode::root
TreeNode_root(blocks) == next_power_of_two((blocks + 1) \div 2) - 1

-----------------------------------------------------------------------------
(* ByteNum, ChunkNum *)

\* ByteNum::chunks
ByteNum_chunks(bytes) ==
    LET mask  == Pow2(CHUNK_SHIFT) - 1
        part  == IF bytes % (mask + 1) # 0 THEN 1 ELSE 0
        whole == bytes \div Pow2(CHUNK_SHIFT)
    IN  whole + part

\* ByteNum::blocks
ByteNum_blocks(bytes, g) ==
    LET block_bits  == g + CHUNK_SHIFT
        block_mask  == Pow2(block_bits) - 1
        full_blocks == bytes \div Pow2(block_bits)
        open_block  == IF bytes % (block_mask + 1) # 0 THEN 1 ELSE 0
    IN  full_blocks + open_block

\* The same count at the full width of u64. A u64 is the set of the places
\* of its one bits, place 0 the lowest. A shift by U64_BITS or more places
\* overflows: it panics when the build checks overflow, and shifts by the
\* count modulo U64_BITS when it does not.
U64_BITS == 64

\* (1 << k) - 1
low_mask(checks, k) ==
    IF k >= U64_BITS /\ checks THEN <<"Panic">>
    ELSE <<"Ok", 0..((k % U64_BITS) - 1)>>

\* x >> k
shr(checks, x, k) ==
    IF k >= U64_BITS /\ checks THEN <<"Panic">>
    ELSE <<"Ok", {i - (k % U64_BITS) : i \in {j \in x : j >= k % U64_BITS}}>>

\* the block that is not full left out of the count
ByteNum_blocks_u64_full_only(checks, x, g) ==
    IF low_mask(checks, g + CHUNK_SHIFT)[1] = "Panic" THEN <<"Panic">>
    ELSE shr(checks, x, g + CHUNK_SHIFT)

\* ByteNum::blocks on a u64: <<"Ok", blocks>> or <<"Panic">>
ByteNum_blocks_u64(checks, x, g) ==
    LET block_bits  == g + CHUNK_SHIFT
        block_mask  == low_mask(checks, block_bits)
        full_blocks == shr(checks, x, block_bits)
        open_block  == x \cap block_mask[2] # {}
        \* full_blocks + 1: the lowest zero bit set, the ones below it cleared
        carry       == CHOOSE k \in 0..U64_BITS :
                           /\ k \notin full_blocks[2]
                           /\ \A j \in 0..(k - 1) : j \in full_blocks[2]
    IN  IF block_mask[1] = "Panic" \/ full_blocks[1] = "Panic" THEN <<"Panic">>
        ELSE IF ~open_block THEN full_blocks
        ELSE IF carry = U64_BITS
        THEN (IF checks THEN <<"Panic">> ELSE <<"Ok", {}>>)
        ELSE <<"Ok", {i \in full_blocks[2] : i > carry} \cup {carry}>>

\* BaoTree::blocks on a u64: .max(BlockNum(1))
BaoTree_blocks_u64(checks, x, g) ==
    LET b == ByteNum_blocks_u64(checks, x, g)
    IN  IF b = <<"Ok", {}>> THEN <<"Ok", {0}>> ELSE b

\* ChunkNum::to_bytes
to_bytes(chunks) == chunks * Pow2(CHUNK_SHIFT)

\* BlockNum::to_chunks
to_chunks(blocks, g) == blocks * Pow2(g)

-----------------------------------------------------------------------------
(* BaoTree: [size, chunk_group_log, start_chunk] *)

\* BaoTree::new_with_start_chunk
new_with_start_chunk(sz, g, start) ==
    [size |-> sz, chunk_group_log |-> g, start_chunk |-> start]

\* BaoTree::new
BaoTree_new(sz, g) == new_with_start_chunk(sz, g, 0)

\* BaoTree::blocks
blocks(tree) == Max(ByteNum_blocks(tree.size, tree.chunk_group_log), 1)

\* BaoTree::chunks
chunks(tree) == ByteNum_chunks(tree.size)

\* BaoTree::root
root(tree) == TreeNode_root(blocks(tree))

\* one pair for every pair of leaf nodes
outboard_hash_pairs_of_leaves(tree) == (blocks(tree) + 1) \div 2 - 1

\* BaoTree::outboard_hash_pairs
outboard_hash_pairs(tree) == blocks(tree) - 1

\* BaoTree::outboard_size
outboard_size(sz, g) == outboard_hash_pairs(BaoTree_new(sz, g)) * 64 + 8

\* BaoTree::filled_size
filled_size(tree) ==
    LET n == (blocks(tree) + 1) \div 2
    IN  n + saturating_sub(n, 1)

\* BaoTree::chunk_group_chunks
chunk_group_chunks(tree) == Pow2(tree.chunk_group_log)

\* BaoTree::chunk_group_bytes
chunk_group_bytes(tree) == to_bytes(chunk_group_chunks(tree))

\* BaoTree::chunk_num
chunk_num(tree, leaf) == leaf * Pow2(tree.chunk_group_log) + tree.start_chunk

\* BaoTree::bytes
bytes(tree, blks) == blks * Pow2(CHUNK_SHIFT + tree.chunk_group_log)

\* BaoTree::is_sealed
is_sealed(tree, node) == byte_range(node, tree.chunk_group_log)[2] <= tree.size

\* BaoTree::is_persisted
is_persisted(tree, node) ==
    ~is_leaf(node) \/ bytes(tree, mid(node)) < tree.size

\* PostOrderOffset::value
value(off) == IF off[1] = "Skip" THEN None ELSE Some(off[2])

\* an unsealed node given the number it would have in a full tree
post_order_offset_stable(tree, node) ==
    IF ~is_sealed(tree, node) /\ ~is_persisted(tree, node) THEN <<"Skip">>
    ELSE <<"Stable", node_post_order_offset(node)>>

\* BaoTree::post_order_offset: <<"Stable", p>>, <<"Unstable", p>> or <<"Skip">>
post_order_offset(tree, node) ==
    IF is_sealed(tree, node) THEN <<"Stable", node_post_order_offset(node)>>
    ELSE IF ~is_persisted(tree, node) THEN <<"Skip">>
    ELSE IF outboard_hash_pairs(tree) >= right_count(node) + 1
    THEN <<"Unstable", outboard_hash_pairs(tree) - (right_count(node) + 1)>>
    ELSE <<"Skip">>

\* a leaf whose data ends exactly at its middle taken to have a right half
leaf_byte_ranges_mid_in(tree, leaf) ==
    LET cgb   == Pow2(tree.chunk_group_log) * Pow2(CHUNK_SHIFT)
        start == cgb * leaf
        mid_b == start + cgb
        end   == start + cgb * 2
    IN  IF mid_b > tree.size
        THEN <<"Err", <<start, tree.size>>, <<start, tree.size>>>>
        ELSE <<"Ok", <<start, mid_b>>, <<mid_b, Min(end, tree.size)>>>>

\* BaoTree::leaf_byte_ranges: <<"Ok", left, right>> or <<"Err", left, left>>,
\* a range being <<start, end>>
leaf_byte_ranges(tree, leaf) ==
    LET cgb   == chunk_group_bytes(tree)
        start == cgb * leaf
        mid_b == start + cgb
        end   == start + cgb * 2
    IN  IF mid_b >= tree.size
        THEN <<"Err", <<start, tree.size>>, <<start, tree.size>>>>
        ELSE <<"Ok", <<start, mid_b>>, <<mid_b, Min(end, tree.size)>>>>

\* BaoTree::leaf_byte_ranges2: <<left, right>>
leaf_byte_ranges2(tree, leaf) ==
    LET cgb   == chunk_group_bytes(tree)
        start == cgb * leaf
        mid_b == start + cgb
        end   == start + cgb * 2
    IN  << <<start, Min(mid_b, tree.size)>>,
           <<Min(mid_b, tree.size), Min(end, tree.size)>> >>

\* the middle of the leaf not cut to the data
leaf_byte_ranges3_mid_uncut(tree, leaf) ==
    LET cgb   == chunk_group_bytes(tree)
        start == cgb * leaf
        mid_b == start + cgb
        end   == start + cgb * 2
    IN  <<start, mid_b, Max(mid_b, Min(end, tree.size))>>

\* BaoTree::leaf_byte_ranges3: <<start, mid, end>>
leaf_byte_ranges3(tree, leaf) ==
    LET cgb   == chunk_group_bytes(tree)
        start == cgb * leaf
        mid_b == start + cgb
        end   == start + cgb * 2
    IN  <<start, Min(mid_b, tree.size), Min(end, tree.size)>>

\* a leaf taken to span one block
leaf_byte_range_one_block(tree, leaf) ==
    LET cgb   == chunk_group_bytes(tree)
        start == cgb * leaf
        end   == start + cgb
    IN  <<start, Min(end, tree.size)>>

\* BaoTree::leaf_byte_range: <<start, end>>
leaf_byte_range(tree, leaf) ==
    LET cgb   == chunk_group_bytes(tree)
        start == cgb * leaf
        end   == start + cgb * 2
    IN  <<start, Min(end, tree.size)>>

-----------------------------------------------------------------------------
(* Range sets: a RangeSet2<ChunkNum> is its strictly increasing sequence of  *)
(* boundaries; an odd number of boundaries leaves the last range open.      *)

\* RangeSetRef::is_empty
is_empty(r) == Len(r) = 0

\* the number of boundaries < at: slice::binary_search's index, which is
\* Ok(i) when boundary i (counting from 0) equals at and Err(i) otherwise
search_index(r, at) == Cardinality({i \in 1..Len(r) : r[i] < at})
search_found(r, at) == \E i \in 1..Len(r) : r[i] = at

\* &ranges[from..] and &ranges[..to], 0-based as in Rust
slice_from(r, from) == SubSeq(r, from + 1, Len(r))
slice_to(r, to) == SubSeq(r, 1, to)

\* RangeSetRef::split(at): <<left, right>>, both borrowed sub-slices of the
\* boundaries (the returned references borrow from the argument, so no
\* boundary equal to `at` can be inserted).  left agrees with r below at and
\* right agrees with r from at on.  Where the cut falls inside a range (i
\* odd), the library either also keeps the range's end in left (keep_end) or
\* leaves left open-ended.
split_with(keep_end, r, at) ==
    LET l == Len(r)
        i == search_index(r, at)
    IN  IF i % 2 = 0
        THEN <<slice_to(r, i), slice_from(r, i)>>
        ELSE IF search_found(r, at)
        THEN <<slice_to(r, IF keep_end THEN Min(i + 1, l) ELSE i),
               slice_from(r, Min(i + 1, l))>>
        ELSE <<slice_to(r, IF keep_end THEN Min(i + 1, l) ELSE i),
               slice_from(r, saturating_sub(i, 1))>>

split(r, at) == split_with(split_keeps_end, r, at)

\* RangeSet2::from(RangeFrom { start })
from_range_from(start) == <<start>>

\* a fallback that forgets the "- 1": asks from end on, past the last chunk
canonicalize_range_no_last(r, end) ==
    LET range == split(r, end)[1]
    IN  IF ~is_empty(range) THEN <<"Ok", range>> ELSE <<"Err", end>>

\* canonicalize_range: <<"Ok", set>> or <<"Err", start>> (the RangeFrom start..)
canonicalize_range(r, end) ==
    LET range == split(r, end)[1]
    IN  IF ~is_empty(range) THEN <<"Ok", range>>
        ELSE IF end # 0 THEN <<"Err", end - 1>>
        ELSE <<"Err", end>>

\* a fallback that closes the range at end, [end - 1, end), instead of
\* leaving it open
canonicalize_range_owned_closed(r, end_bytes) ==
    LET c == canonicalize_range(r, ByteNum_chunks(end_bytes))
    IN  IF c[1] = "Ok" THEN c[2] ELSE <<c[2], c[2] + 1>>

\* canonicalize_range_owned; the same match is made by encode_ranges,
\* decode_ranges_old and decode_ranges_into
canonicalize_range_owned(r, end_bytes) ==
    LET c == canonicalize_range(r, ByteNum_chunks(end_bytes))
    IN  IF c[1] = "Ok" THEN c[2] ELSE from_range_from(c[2])

-----------------------------------------------------------------------------
(* Byte strings *)

NoTerm == <<"none">>

\* bytes lo..hi-1 of the data blob
DataSeg(lo, hi) == [k |-> "data", t |-> NoTerm, lo |-> lo, hi |-> hi]
\* bytes lo..hi-1 of the 32-byte encoding of hash h
HashSeg(h, lo, hi) == [k |-> "hash", t |-> h, lo |-> lo, hi |-> hi]
\* one byte of value v
LitSeg(v) == [k |-> "lit", t |-> NoTerm, lo |-> v, hi |-> v + 1]
\* the byte an adversary put at position p of a stream
AltSeg(p) == [k |-> "alt", t |-> NoTerm, lo |-> p, hi |-> p + 1]

\* Vec::extend_from_slice / Write::write_all of one segment: adjoining
\* pieces of one source are one run of bytes
PushSeg(bs, seg) ==
    IF seg.lo >= seg.hi THEN bs
    ELSE IF /\ Len(bs) > 0
            /\ seg.k \in {"data", "hash"}
            /\ bs[Len(bs)].k = seg.k
            /\ bs[Len(bs)].t = seg.t
            /\ bs[Len(bs)].hi = seg.lo
    THEN [bs EXCEPT ![Len(bs)].hi = seg.hi]
    ELSE Append(bs, seg)

RECURSIVE CatFrom(_, _, _)
CatFrom(a, b, i) ==
    IF i > Len(b) THEN a ELSE CatFrom(PushSeg(a, b[i]), b, i + 1)

\* concatenation
Cat(a, b) == CatFrom(a, b, 1)

\* the number of bytes
RECURSIVE BLenFrom(_, _)
BLenFrom(bs, i) ==
    IF i > Len(bs) THEN 0 ELSE (bs[i].hi - bs[i].lo) + BLenFrom(bs, i + 1)
BLen(bs) == BLenFrom(bs, 1)

\* &bs[..n]
RECURSIVE Take(_, _)
Take(bs, n) ==
    IF n <= 0 \/ Len(bs) = 0 THEN <<>>
    ELSE LET w == bs[1].hi - bs[1].lo
         IN  IF w <= n THEN <<bs[1]>> \o Take(Tail(bs), n - w)
             ELSE <<[bs[1] EXCEPT !.hi = bs[1].lo + n]>>

\* &bs[n..]
RECURSIVE Drop(_, _)
Drop(bs, n) ==
    IF n <= 0 \/ Len(bs) = 0 THEN bs
    ELSE LET w == bs[1].hi - bs[1].lo
         IN  IF w <= n THEN Drop(Tail(bs), n - w)
             ELSE <<[bs[1] EXCEPT !.lo = bs[1].lo + n]>> \o Tail(bs)

\* &bs[a..b]
Slice(bs, a, b) == Take(Drop(bs, a), b - a)

\* the data blob: &data[a..b]
DataSlice(a, b) == IF a < b THEN <<DataSeg(a, b)>> ELSE <<>>

\* u64::to_le_bytes
RECURSIVE le_bytes(_, _)
le_bytes(n, k) ==
    IF k = 0 THEN <<>> ELSE <<LitSeg(n % 256)>> \o le_bytes(n \div 256, k - 1)
to_le_bytes(n) == le_bytes(n, 8)

\* u64::from_le_bytes of 8 bytes (a byte that is no literal reads as 0)
RECURSIVE le_value(_, _)
le_value(bs, i) ==
    IF i > Len(bs) THEN 0
    ELSE (IF bs[i].k = "lit" THEN bs[i].lo ELSE 0) + 256 * le_value(bs, i + 1)
from_le_bytes(bs) == le_value(bs, 1)

\* Read::read_exact on a Cursor: <<"Ok", bytes, rest>> or <<"Err", <<>>, rest>>
read_exact(input, n) ==
    IF BLen(input) < n THEN <<"Err", <<>>, <<>>>>
    ELSE <<"Ok", Take(input, n), Drop(input, n)>>

\* read_len_io
read_len_io(input) ==
    LET r == read_exact(input, 8)
    IN  IF r[1] = "Ok" THEN <<"Ok", from_le_bytes(r[2]), r[3]>>
        ELSE <<"Err", 0, r[3]>>

-----------------------------------------------------------------------------
(* Hashes *)

\* blake3::guts::parent_cv
parent_cv(l, r, is_root) == <<"parent", l, r, is_root>>

\* hash_chunk: ChunkState::new(chunk).update(data).finalize(is_root)
hash_chunk(chunk, data, is_root) == <<"chunk", chunk, data, is_root>>

\* blake3::Hash::as_bytes
as_bytes(h) == IF h[1] = "junk" THEN h[2] ELSE <<HashSeg(h, 0, 32)>>

\* blake3::Hash::from([u8; 32])
hash_from(bs) ==
    IF Len(bs) = 1 /\ bs[1].k = "hash" /\ bs[1].lo = 0 /\ bs[1].hi = 32
    THEN bs[1].t
    ELSE <<"junk", bs>>

\* read_parent_io: <<"Ok", l_hash, r_hash, rest>> or <<"Err", .., rest>>
read_parent_io(input) ==
    LET r == read_exact(input, 64)
    IN  IF r[1] = "Ok"
        THEN <<"Ok", hash_from(Take(r[2], 32)), hash_from(Drop(r[2], 32)), r[3]>>
        ELSE <<"Err", NoTerm, NoTerm, r[3]>>

\* SmallVec::pop().unwrap() on the hash stack; the top is the last element
Top(stack) == IF Len(stack) > 0 THEN stack[Len(stack)] ELSE NoTerm
Pop(stack) == IF Len(stack) > 0 THEN SubSeq(stack, 1, Len(stack) - 1) ELSE <<>>

-----------------------------------------------------------------------------
(* The post-order walk *)

\* BaoTree::iterate_reference, iterate_rec: left, right, self
\* the walk that leaves out what is right of a node
RECURSIVE iterate_rec_no_right(_, _)
iterate_rec_no_right(valid_nodes, nn) ==
    IF ~is_leaf(nn)
    THEN LET l == left_child(nn)
         IN  (IF IsSome(l) THEN iterate_rec_no_right(valid_nodes, Unwrap(l)) ELSE <<>>)
             \o <<nn>>
    ELSE <<nn>>

\* the walk taken self first
RECURSIVE iterate_rec_self_first(_, _)
iterate_rec_self_first(valid_nodes, nn) ==
    IF ~is_leaf(nn)
    THEN LET l == left_child(nn)
             r == right_descendant(nn, valid_nodes)
         IN  <<nn>>
             \o (IF IsSome(l) THEN iterate_rec_self_first(valid_nodes, Unwrap(l)) ELSE <<>>)
             \o (IF IsSome(r) THEN iterate_rec_self_first(valid_nodes, Unwrap(r)) ELSE <<>>)
    ELSE <<nn>>

\* BaoTree::iterate_reference: left, right, self
RECURSIVE iterate_rec(_, _)
iterate_rec(valid_nodes, nn) ==
    IF ~is_leaf(nn)
    THEN LET l == left_child(nn)
             r == right_descendant(nn, valid_nodes)
         IN  (IF IsSome(l) THEN iterate_rec(valid_nodes, Unwrap(l)) ELSE <<>>)
             \o (IF IsSome(r) THEN iterate_rec(valid_nodes, Unwrap(r)) ELSE <<>>)
             \o <<nn>>
    ELSE <<nn>>

iterate_reference(tree) == iterate_rec(filled_size(tree), root(tree))

\* BaoTree::iterate (PostOrderTreeIter): every node of the tree, depth
\* first, left to right, post order, from the root with its filled-size
\* limit
iterate(tree) == iterate_reference(tree)

-----------------------------------------------------------------------------
(* blake3_hash_inner and hash_block *)

\* one node of blake3_hash_inner's loop; st = [stack, data]
hash_inner_node(tree, can_be_root, node, st) ==
    LET is_root == can_be_root /\ node = root(tree)
    IN  IF is_leaf(node)
        THEN LET chunk0 == chunk_num(tree, node)
                 lbr    == leaf_byte_ranges(tree, node)
             IN  IF lbr[1] = "Ok"
                 THEN LET ld == Take(st.data, lbr[2][2] - lbr[2][1])
                          d1 == Drop(st.data, lbr[2][2] - lbr[2][1])
                          left_hash == hash_chunk(chunk0, ld, FALSE)
                          rd == Take(d1, lbr[3][2] - lbr[3][1])
                          d2 == Drop(d1, lbr[3][2] - lbr[3][1])
                          right_hash ==
                              hash_chunk(chunk0 + chunk_group_chunks(tree), rd, FALSE)
                      IN  [stack |-> Append(st.stack,
                                            parent_cv(left_hash, right_hash, is_root)),
                           data  |-> d2]
                 ELSE LET ld == Take(st.data, lbr[2][2] - lbr[2][1])
                          d1 == Drop(st.data, lbr[2][2] - lbr[2][1])
                      IN  [stack |-> Append(st.stack, hash_chunk(chunk0, ld, is_root)),
                           data  |-> d1]
        ELSE LET right == Top(st.stack)
                 left  == Top(Pop(st.stack))
             IN  [stack |-> Append(Pop(Pop(st.stack)), parent_cv(left, right, is_root)),
                  data  |-> st.data]

RECURSIVE hash_inner_loop(_, _, _, _, _)
hash_inner_loop(tree, can_be_root, walk, i, st) ==
    IF i > Len(walk) THEN st
    ELSE hash_inner_loop(tree, can_be_root, walk, i + 1,
                         hash_inner_node(tree, can_be_root, walk[i], st))

\* BaoTree::blake3_hash_inner
blake3_hash_inner(data, data_len, start_chunk, is_root) ==
    LET tree == new_with_start_chunk(data_len, 0, start_chunk)
        st   == hash_inner_loop(tree, is_root, iterate(tree), 1,
                                [stack |-> <<>>, data |-> data])
    IN  Top(st.stack)

\* BaoTree::blake3_hash
blake3_hash(data) == blake3_hash_inner(data, BLen(data), 0, TRUE)

\* a block hashed as if it were the first of the data
hash_block_from_zero(start_chunk, data, is_root) ==
    blake3_hash_inner(data, BLen(data), 0, is_root)

\* hash_block
hash_block(start_chunk, data, is_root) ==
    blake3_hash_inner(data, BLen(data), start_chunk, is_root)

-----------------------------------------------------------------------------
(* The outboard producer *)

\* one node of outboard_post_order_sync_impl's loop; st = [stack, data, outboard]
outboard_node(tree, node, st) ==
    LET is_root == node = root(tree)
    IN  IF is_leaf(node)
        THEN LET chunk0 == chunk_num(tree, node)
                 cgc    == chunk_group_chunks(tree)
                 lbr    == leaf_byte_ranges(tree, node)
             IN  IF lbr[1] = "Ok"
                 THEN LET l_data == Take(st.data, lbr[2][2] - lbr[2][1])
                          d1     == Drop(st.data, lbr[2][2] - lbr[2][1])
                          l_hash == hash_block(chunk0, l_data, FALSE)
                          r_data == Take(d1, lbr[3][2] - lbr[3][1])
                          d2     == Drop(d1, lbr[3][2] - lbr[3][1])
                          r_hash == hash_block(chunk0 + cgc, r_data, FALSE)
                      IN  [stack    |-> Append(st.stack,
                                               parent_cv(l_hash, r_hash, is_root)),
                           data     |-> d2,
                           outboard |-> Cat(Cat(st.outboard, as_bytes(l_hash)),
                                            as_bytes(r_hash))]
                 ELSE LET l_data == Take(st.data, lbr[2][2] - lbr[2][1])
                          d1     == Drop(st.data, lbr[2][2] - lbr[2][1])
                          l_hash == hash_block(chunk0, l_data, is_root)
                      IN  [stack    |-> Append(st.stack, l_hash),
                           data     |-> d1,
                           outboard |-> st.outboard]
        ELSE LET right_hash == Top(st.stack)
                 left_hash  == Top(Pop(st.stack))
             IN  [stack    |-> Append(Pop(Pop(st.stack)),
                                      parent_cv(left_hash, right_hash, is_root)),
                  data     |-> st.data,
                  outboard |-> Cat(Cat(st.outboard, as_bytes(left_hash)),
                                   as_bytes(right_hash))]

RECURSIVE outboard_loop(_, _, _, _)
outboard_loop(tree, walk, i, st) ==
    IF i > Len(walk) THEN st
    ELSE outboard_loop(tree, walk, i + 1, outboard_node(tree, walk[i], st))

\* BaoTree::outboard_post_order_mem: [outboard, hash]
outboard_post_order_mem(sz, g) ==
    LET tree == new_with_start_chunk(sz, g, 0)
        st   == outboard_loop(tree, iterate(tree), 1,
                              [stack |-> <<>>, data |-> DataSlice(0, sz),
                               outboard |-> <<>>])
    IN  [outboard |-> Cat(st.outboard, to_le_bytes(sz)), hash |-> Top(st.stack)]

IdleProd == [pc |-> "idle", i |-> 0, stack |-> <<>>, data |-> <<>>,
             outboard |-> <<>>, hash |-> NoTerm, blake3 |-> NoTerm]

-----------------------------------------------------------------------------
(* The pre-order selective walk *)

\* full whatever the place of the one boundary
RECURSIVE iterate_part_rec_full_anywhere(_, _, _, _)
iterate_part_rec_full_anywhere(tree, node, rs, min_level) ==
    IF is_empty(rs) THEN <<>>
    ELSE LET mid_c == to_chunks(mid(node), tree.chunk_group_log)
             full  == Len(rs) = 1
             sp    == split(rs, mid_c)
             query_leaf == is_leaf(node) \/ (full /\ level(node) < min_level)
             l == left_child(node)
             r == right_descendant(node, filled_size(tree))
         IN  <<[node |-> node, l_range |-> sp[1], r_range |-> sp[2],
                full |-> full, query_leaf |-> query_leaf]>>
             \o (IF ~query_leaf /\ IsSome(l)
                 THEN iterate_part_rec_full_anywhere(tree, Unwrap(l), sp[1], min_level)
                 ELSE <<>>)
             \o (IF ~query_leaf /\ IsSome(r)
                 THEN iterate_part_rec_full_anywhere(tree, Unwrap(r), sp[2], min_level)
                 ELSE <<>>)

\* the selective walk that goes on below a node with nothing asked for
RECURSIVE iterate_part_rec_unpruned(_, _, _, _)
iterate_part_rec_unpruned(tree, node, rs, min_level) ==
    LET mid_c == to_chunks(mid(node), tree.chunk_group_log)
        start == to_chunks(block_range(node)[1], tree.chunk_group_log)
        full  == Len(rs) = 1 /\ rs[1] <= start
        sp    == split(rs, mid_c)
        query_leaf == is_leaf(node) \/ (full /\ level(node) < min_level)
        l == left_child(node)
        r == right_descendant(node, filled_size(tree))
    IN  <<[node |-> node, l_range |-> sp[1], r_range |-> sp[2],
           full |-> full, query_leaf |-> query_leaf]>>
        \o (IF ~query_leaf /\ IsSome(l)
            THEN iterate_part_rec_unpruned(tree, Unwrap(l), sp[1], min_level)
            ELSE <<>>)
        \o (IF ~query_leaf /\ IsSome(r)
            THEN iterate_part_rec_unpruned(tree, Unwrap(r), sp[2], min_level)
            ELSE <<>>)

\* the selective walk taken self, right, left
RECURSIVE iterate_part_rec_right_first(_, _, _, _)
iterate_part_rec_right_first(tree, node, rs, min_level) ==
    IF is_empty(rs) THEN <<>>
    ELSE LET mid_c == to_chunks(mid(node), tree.chunk_group_log)
             start == to_chunks(block_range(node)[1], tree.chunk_group_log)
             full  == Len(rs) = 1 /\ rs[1] <= start
             sp    == split(rs, mid_c)
             query_leaf == is_leaf(node) \/ (full /\ level(node) < min_level)
             l == left_child(node)
             r == right_descendant(node, filled_size(tree))
         IN  <<[node |-> node, l_range |-> sp[1], r_range |-> sp[2],
                full |-> full, query_leaf |-> query_leaf]>>
             \o (IF ~query_leaf /\ IsSome(r)
                 THEN iterate_part_rec_right_first(tree, Unwrap(r), sp[2], min_level)
                 ELSE <<>>)
             \o (IF ~query_leaf /\ IsSome(l)
                 THEN iterate_part_rec_right_first(tree, Unwrap(l), sp[1], min_level)
                 ELSE <<>>)

\* BaoTree::iterate_part_preorder_reference, iterate_part_rec: the NodeInfo
\* records [node, l_range, r_range, full, query_leaf], self, left, right
RECURSIVE iterate_part_rec(_, _, _, _)
iterate_part_rec(tree, node, rs, min_level) ==
    IF is_empty(rs) THEN <<>>
    ELSE LET mid_c == to_chunks(mid(node), tree.chunk_group_log)
             start == to_chunks(block_range(node)[1], tree.chunk_group_log)
             full  == Len(rs) = 1 /\ rs[1] <= start
             sp    == split(rs, mid_c)
             query_leaf == is_leaf(node) \/ (full /\ level(node) < min_level)
             l == left_child(node)
             r == right_descendant(node, filled_size(tree))
         IN  <<[node |-> node, l_range |-> sp[1], r_range |-> sp[2],
                full |-> full, query_leaf |-> query_leaf]>>
             \o (IF ~query_leaf /\ IsSome(l)
                 THEN iterate_part_rec(tree, Unwrap(l), sp[1], min_level) ELSE <<>>)
             \o (IF ~query_leaf /\ IsSome(r)
                 THEN iterate_part_rec(tree, Unwrap(r), sp[2], min_level) ELSE <<>>)

iterate_part_preorder_reference(tree, rs, min_level) ==
    iterate_part_rec(tree, root(tree), rs, min_level)

\* BaoTree::iterate_part_preorder_ref (PreOrderPartialIterRef): a NodeInfo
\* for every node whose sub-tree is handed a non-empty range set, depth
\* first, pre order
iterate_part_preorder_ref(tree, rs, min_level) ==
    iterate_part_preorder_reference(tree, rs, min_level)

-----------------------------------------------------------------------------
(* The selective encoder *)

\* a query that names no chunk of the data answered with all of the data
canonical_or_all(rs, sz) ==
    LET c == canonicalize_range(rs, ByteNum_chunks(sz))
    IN  IF c[1] = "Ok" THEN c[2] ELSE from_range_from(0)

\* the range set a decoder or the encoder walks with: the canonical one, or
\* RangeSet2::from(range) of the fallback
canonical_or_last(rs, sz) ==
    LET c == canonicalize_range(rs, ByteNum_chunks(sz))
    IN  IF c[1] = "Ok" THEN c[2] ELSE from_range_from(c[2])

\* one node of encode_ranges_impl's loop; st = [res, ok], ok false once a
\* slice index is out of bounds (a panic)
encode_node(tree, outboard, info, st) ==
    LET tl  == ~is_empty(info.l_range)
        tr  == ~is_empty(info.r_range)
        off == value(post_order_offset(tree, info.node))
        hash_offset == IF IsSome(off) THEN Unwrap(off) * 64 ELSE 0
        in_bounds   == IsSome(off) => hash_offset + 64 <= BLen(outboard)
        res1 == IF IsSome(off)
                THEN Cat(st.res, Slice(outboard, hash_offset, hash_offset + 64))
                ELSE st.res
        lr   == leaf_byte_ranges2(tree, info.node)
        res2 == IF is_leaf(info.node) /\ tl
                THEN Cat(res1, DataSlice(lr[1][1], lr[1][2])) ELSE res1
        res3 == IF is_leaf(info.node) /\ tr
                THEN Cat(res2, DataSlice(lr[2][1], lr[2][2])) ELSE res2
    IN  [res |-> res3, ok |-> st.ok /\ in_bounds]

RECURSIVE encode_loop(_, _, _, _, _)
encode_loop(tree, outboard, walk, i, st) ==
    IF i > Len(walk) THEN st
    ELSE encode_loop(tree, outboard, walk, i + 1,
                     encode_node(tree, outboard, walk[i], st))

\* BaoTree::encode_ranges_impl: [res, ok]
encode_ranges_impl(sz, outboard, rs, g) ==
    LET tree == BaoTree_new(sz, g)
    IN  encode_loop(tree, outboard, iterate_part_preorder_ref(tree, rs, 0), 1,
                    [res |-> to_le_bytes(tree.size), ok |-> TRUE])

\* BaoTree::encode_ranges
encode_ranges(sz, outboard, rs, g) ==
    encode_ranges_impl(sz, outboard, canonical_or_last(rs, sz), g)

-----------------------------------------------------------------------------
(* The decoders.  A decoder's state st is                                   *)
(*   [stack, is_root, input, res, target, checked, status, buf]             *)
(* status "ok" while the loop runs, "mismatch" after the break, "eof" when  *)
(* a read came back short, "panic" when an unwrap or the assertion failed.  *)
(* res holds the items [ok, start, end, bytes, err]; target the writes      *)
(* [start, bytes] to the sink; checked is the record of the leaf halves     *)
(* whose hash comparison succeeded: [start, bytes, expected, chunk,         *)
(* is_root, rest], rest the number of bytes of the stream not yet read.     *)

OkItem(start, end, bs) ==
    [ok |-> TRUE, start |-> start, end |-> end, bytes |-> bs, err |-> ""]
ErrItem(e) ==
    [ok |-> FALSE, start |-> 0, end |-> 0, bytes |-> <<>>, err |-> e]

\* one hash computation of a decoder, as the log of a run keeps it: a
\* parent_cv over the pair read at a node, or hash_block over a leaf half
\* that starts at a chunk; the hash popped to compare with, the flag passed
\* and the bytes read
HashOp(kind, at, expected, l_hash, r_hash, is_root, len) ==
    [kind |-> kind, at |-> at, expected |-> expected, left |-> l_hash,
     right |-> r_hash, is_root |-> is_root, len |-> len]

\* the error pushed, and the loop goes on
Mismatch_no_break(st) ==
    [st EXCEPT !.res = Append(st.res, ErrItem("HashMismatch"))]

\* io::Error::new(io::ErrorKind::InvalidData, "Hash mismatch") pushed, break
Mismatch(st) ==
    [st EXCEPT !.res = Append(st.res, ErrItem("HashMismatch")),
               !.status = "mismatch"]

\* the hash pair taken as it comes, not compared with the expected hash
decode_parent_unchecked(tree, info, st) ==
    LET tl == ~is_empty(info.l_range)
        tr == ~is_empty(info.r_range)
        rp == read_parent_io(st.input)
        s1 == Pop(st.stack)
        s2 == IF tr THEN Append(s1, rp[3]) ELSE s1
        s3 == IF tl THEN Append(s2, rp[2]) ELSE s2
    IN  IF st.status # "ok" \/ ~is_persisted(tree, info.node) THEN st
        ELSE IF rp[1] = "Err" THEN [st EXCEPT !.status = "eof"]
        ELSE IF Len(st.stack) = 0 THEN [st EXCEPT !.status = "panic"]
        ELSE [st EXCEPT !.input = rp[4], !.stack = s3, !.is_root = FALSE]

\* the left hash pushed before the right one
decode_parent_left_first(tree, info, st) ==
    LET tl == ~is_empty(info.l_range)
        tr == ~is_empty(info.r_range)
        rp == read_parent_io(st.input)
        parent_hash == Top(st.stack)
        actual == parent_cv(rp[2], rp[3], st.is_root)
        s1 == Pop(st.stack)
        s2 == IF tl THEN Append(s1, rp[2]) ELSE s1
        s3 == IF tr THEN Append(s2, rp[3]) ELSE s2
    IN  IF st.status # "ok" \/ ~is_persisted(tree, info.node) THEN st
        ELSE IF rp[1] = "Err" THEN [st EXCEPT !.status = "eof"]
        ELSE IF Len(st.stack) = 0 THEN [st EXCEPT !.status = "panic"]
        ELSE IF parent_hash # actual
        THEN Mismatch([st EXCEPT !.input = rp[4], !.stack = s1, !.is_root = FALSE,
                                 !.ops = Append(st.ops,
                                     HashOp("parent", info.node, parent_hash,
                                            rp[2], rp[3], st.is_root, 64))])
        ELSE [st EXCEPT !.input = rp[4], !.stack = s3, !.is_root = FALSE,
                        !.ops = Append(st.ops,
                            HashOp("parent", info.node, parent_hash,
                                   rp[2], rp[3], st.is_root, 64))]

\* the root flag left set after the pair is checked
decode_parent_keeps_root(tree, info, st) ==
    LET tl == ~is_empty(info.l_range)
        tr == ~is_empty(info.r_range)
        rp == read_parent_io(st.input)
        parent_hash == Top(st.stack)
        actual == parent_cv(rp[2], rp[3], st.is_root)
        s1 == Pop(st.stack)
        s2 == IF tr THEN Append(s1, rp[3]) ELSE s1
        s3 == IF tl THEN Append(s2, rp[2]) ELSE s2
    IN  IF st.status # "ok" \/ ~is_persisted(tree, info.node) THEN st
        ELSE IF rp[1] = "Err" THEN [st EXCEPT !.status = "eof"]
        ELSE IF Len(st.stack) = 0 THEN [st EXCEPT !.status = "panic"]
        ELSE IF parent_hash # actual
        THEN Mismatch([st EXCEPT !.input = rp[4], !.stack = s1,
                                 !.ops = Append(st.ops,
                                     HashOp("parent", info.node, parent_hash,
                                            rp[2], rp[3], st.is_root, 64))])
        ELSE [st EXCEPT !.input = rp[4], !.stack = s3,
                        !.ops = Append(st.ops,
                            HashOp("parent", info.node, parent_hash,
                                   rp[2], rp[3], st.is_root, 64))]

\* the `if tree.is_persisted(node) { .. }` block, the same in both decoders
decode_parent(tree, info, st) ==
    LET tl == ~is_empty(info.l_range)
        tr == ~is_empty(info.r_range)
        rp == read_parent_io(st.input)
        parent_hash == Top(st.stack)
        actual == parent_cv(rp[2], rp[3], st.is_root)
        s1 == Pop(st.stack)
        s2 == IF tr THEN Append(s1, rp[3]) ELSE s1
        s3 == IF tl THEN Append(s2, rp[2]) ELSE s2
    IN  IF st.status # "ok" \/ ~is_persisted(tree, info.node) THEN st
        ELSE IF rp[1] = "Err" THEN [st EXCEPT !.status = "eof"]
        ELSE IF Len(st.stack) = 0 THEN [st EXCEPT !.status = "panic"]
        ELSE IF parent_hash # actual
        THEN Mismatch([st EXCEPT !.input = rp[4], !.stack = s1, !.is_root = FALSE,
                                 !.ops = Append(st.ops,
                                     HashOp("parent", info.node, parent_hash,
                                            rp[2], rp[3], st.is_root, 64))])
        ELSE [st EXCEPT !.input = rp[4], !.stack = s3, !.is_root = FALSE,
                        !.ops = Append(st.ops,
                            HashOp("parent", info.node, parent_hash,
                                   rp[2], rp[3], st.is_root, 64))]

\* one half of a leaf: pop the expected hash, read the half into the
\* buffer, compare
decode_half(st, start_chunk, from, to) ==
    LET rd == read_exact(st.input, to - from)
        expected == Top(st.stack)
        actual == hash_block(start_chunk, rd[2], st.is_root)
    IN  IF st.status # "ok" THEN st
        ELSE IF Len(st.stack) = 0 THEN [st EXCEPT !.status = "panic"]
        ELSE IF rd[1] = "Err" THEN [st EXCEPT !.status = "eof", !.stack = Pop(st.stack)]
        ELSE IF expected # actual
        THEN Mismatch([st EXCEPT !.input = rd[3], !.stack = Pop(st.stack),
                                 !.is_root = FALSE,
                                 !.buf = Cat(st.buf, rd[2]),
                                 !.ops = Append(st.ops,
                                     HashOp("half", start_chunk, expected,
                                            NoTerm, NoTerm, st.is_root, to - from))])
        ELSE [st EXCEPT !.input = rd[3], !.stack = Pop(st.stack),
                        !.is_root = FALSE,
                        !.buf = Cat(st.buf, rd[2]),
                        !.ops = Append(st.ops,
                            HashOp("half", start_chunk, expected,
                                   NoTerm, NoTerm, st.is_root, to - from)),
                        !.checked = Append(st.checked,
                            [start |-> from, bytes |-> rd[2], expected |-> expected,
                             chunk |-> start_chunk, is_root |-> st.is_root,
                             rest |-> BLen(rd[3])])]

\* the leaf's left half in decode_ranges_impl: `if tl { .. }`
decode_impl_left(tree, info, st) ==
    IF ~is_empty(info.l_range)
    THEN decode_half(st, chunk_num(tree, info.node),
                     leaf_byte_ranges3(tree, info.node)[1],
                     leaf_byte_ranges3(tree, info.node)[2])
    ELSE st

\* the leaf's right half in decode_ranges_impl: `if tr && mid < end { .. }`
decode_impl_right(tree, info, st) ==
    IF /\ ~is_empty(info.r_range)
       /\ leaf_byte_ranges3(tree, info.node)[2] < leaf_byte_ranges3(tree, info.node)[3]
    THEN decode_half(st, chunk_num(tree, info.node) + chunk_group_chunks(tree),
                     leaf_byte_ranges3(tree, info.node)[2],
                     leaf_byte_ranges3(tree, info.node)[3])
    ELSE st

\* the tuple reported at the start of the leaf, whichever half was read
decode_impl_emit_at_start(tree, info, st) ==
    LET tl == ~is_empty(info.l_range)
        tr == ~is_empty(info.r_range)
        r3 == leaf_byte_ranges3(tree, info.node)
    IN  IF st.status # "ok" THEN st
        ELSE IF ~(tl \/ tr) THEN [st EXCEPT !.status = "panic"]
        ELSE [st EXCEPT !.res = Append(st.res,
                              OkItem(r3[1], r3[1] + BLen(st.buf), st.buf))]

\* the end of the leaf in decode_ranges_impl: the assertion, and one tuple
\* with what the buffer holds
decode_impl_emit(tree, info, st) ==
    LET tl == ~is_empty(info.l_range)
        tr == ~is_empty(info.r_range)
        r3 == leaf_byte_ranges3(tree, info.node)
        start == IF tl THEN r3[1] ELSE r3[2]
    IN  IF st.status # "ok" THEN st
        ELSE IF ~(tl \/ tr) THEN [st EXCEPT !.status = "panic"]
        ELSE [st EXCEPT !.res = Append(st.res,
                              OkItem(start, start + BLen(st.buf), st.buf))]

\* `if let Some(leaf) = node.as_leaf() { .. }` of decode_ranges_impl
decode_impl_leaf(tree, info, st) ==
    IF is_leaf(info.node)
    THEN decode_impl_emit(tree, info,
            decode_impl_right(tree, info, decode_impl_left(tree, info, st)))
    ELSE st

\* one node of decode_ranges_impl's loop
decode_ranges_impl_node(tree, info, st) ==
    decode_impl_leaf(tree, info,
                     decode_parent(tree, info, [st EXCEPT !.buf = <<>>]))

\* the buffer written to the target whatever the comparison said
decode_into_write_unchecked(st, from, to) ==
    [st EXCEPT !.target = Append(st.target, [start |-> from, bytes |-> st.buf]),
               !.res = Append(st.res, OkItem(from, to, <<>>))]

\* after a half of decode_ranges_into_impl is verified it is written to the
\* target and reported
decode_into_write(st, from, to) ==
    IF st.status # "ok" THEN st
    ELSE [st EXCEPT !.target = Append(st.target, [start |-> from, bytes |-> st.buf]),
                    !.res = Append(st.res, OkItem(from, to, <<>>))]

\* a half of decode_ranges_into_impl
decode_into_half(st, start_chunk, from, to) ==
    IF st.status # "ok" THEN st
    ELSE decode_into_write(decode_half([st EXCEPT !.buf = <<>>], start_chunk, from, to),
                           from, to)

\* `if tl { .. }` of decode_ranges_into_impl
decode_into_left(tree, info, st) ==
    IF ~is_empty(info.l_range)
    THEN decode_into_half(st, chunk_num(tree, info.node),
                          leaf_byte_ranges2(tree, info.node)[1][1],
                          leaf_byte_ranges2(tree, info.node)[1][2])
    ELSE st

\* `if tr && r_range.start < size { .. }` of decode_ranges_into_impl
decode_into_right(tree, info, st) ==
    IF /\ ~is_empty(info.r_range)
       /\ leaf_byte_ranges2(tree, info.node)[2][1] < tree.size
    THEN decode_into_half(st, chunk_num(tree, info.node) + chunk_group_chunks(tree),
                          leaf_byte_ranges2(tree, info.node)[2][1],
                          leaf_byte_ranges2(tree, info.node)[2][2])
    ELSE st

\* `if let Some(leaf) = node.as_leaf() { .. }` of decode_ranges_into_impl
decode_into_leaf(tree, info, st) ==
    IF is_leaf(info.node)
    THEN decode_into_right(tree, info, decode_into_left(tree, info, st))
    ELSE st

\* one node of decode_ranges_into_impl's loop
decode_ranges_into_impl_node(tree, info, st) ==
    decode_into_leaf(tree, info, decode_parent(tree, info, st))

\* a decoder's state before the first node: the stack holds the root
DecodeStart(root_hash, input) ==
    [stack |-> <<root_hash>>, is_root |-> TRUE, input |-> input, res |-> <<>>,
     target |-> <<>>, checked |-> <<>>, status |-> "ok", buf |-> <<>>,
     ops |-> <<>>]

\* Result::unwrap: the Err of a read is a panic
unwrap_io(st) == IF st.status = "eof" THEN [st EXCEPT !.status = "panic"] ELSE st

RECURSIVE decode_impl_loop(_, _, _, _)
decode_impl_loop(tree, walk, i, st) ==
    IF i > Len(walk) \/ st.status # "ok" THEN st
    ELSE decode_impl_loop(tree, walk, i + 1,
                          decode_ranges_impl_node(tree, walk[i], st))

\* BaoTree::decode_ranges_impl
decode_ranges_impl(root_hash, input, sz, rs, g) ==
    unwrap_io(decode_impl_loop(BaoTree_new(sz, g),
                               iterate_part_preorder_ref(BaoTree_new(sz, g), rs, 0), 1,
                               DecodeStart(root_hash, input)))

\* what follows read_len_io(..).unwrap() in decode_ranges_old
decode_old_body(root_hash, hdr, rs, g) ==
    IF hdr[1] = "Err"
    THEN [DecodeStart(root_hash, hdr[3]) EXCEPT !.status = "panic"]
    ELSE decode_ranges_impl(root_hash, hdr[3], hdr[2], canonical_or_last(rs, hdr[2]), g)

\* BaoTree::decode_ranges_old
decode_ranges_old(root_hash, input, rs, g) ==
    decode_old_body(root_hash, read_len_io(input), rs, g)

RECURSIVE decode_into_loop(_, _, _, _)
decode_into_loop(tree, walk, i, st) ==
    IF i > Len(walk) \/ st.status # "ok" THEN st
    ELSE decode_into_loop(tree, walk, i + 1,
                          decode_ranges_into_impl_node(tree, walk[i], st))

\* BaoTree::decode_ranges_into_impl
decode_ranges_into_impl(root_hash, input, sz, rs, g) ==
    unwrap_io(decode_into_loop(BaoTree_new(sz, g),
                               iterate_part_preorder_ref(BaoTree_new(sz, g), rs, 0), 1,
                               DecodeStart(root_hash, input)))

\* what follows read_len_io(..).unwrap() in decode_ranges_into
decode_into_body(root_hash, hdr, rs, g) ==
    IF hdr[1] = "Err"
    THEN [DecodeStart(root_hash, hdr[3]) EXCEPT !.status = "panic"]
    ELSE decode_ranges_into_impl(root_hash, hdr[3], hdr[2],
                                 canonical_or_last(rs, hdr[2]), g)

\* BaoTree::decode_ranges_into
decode_ranges_into(root_hash, input, rs, g) ==
    decode_into_body(root_hash, read_len_io(input), rs, g)

\* DecodeSliceIter from the size header on: a short header is an error item
slice_iter_body(root_hash, hdr, rs, g) ==
    IF hdr[1] = "Err"
    THEN [DecodeStart(root_hash, hdr[3]) EXCEPT !.status = "eof"]
    ELSE decode_impl_loop(BaoTree_new(hdr[2], g),
                          iterate_part_preorder_ref(BaoTree_new(hdr[2], g),
                                                    canonical_or_last(rs, hdr[2]), 0),
                          1, DecodeStart(root_hash, hdr[3]))

\* a failed read is the iterator's last item
slice_iter_end(st) ==
    IF st.status = "eof"
    THEN [st EXCEPT !.res = Append(st.res, ErrItem("UnexpectedEof"))]
    ELSE st

\* DecodeSliceIter, run to its end: the decoder of decode_ranges_impl over
\* the same walk, one fused tuple per leaf, a failed read surfaced as the
\* last item, nothing after an error
DecodeSliceIter(root_hash, input, rs, g) ==
    slice_iter_end(slice_iter_body(root_hash, read_len_io(input), rs, g))

\* the loop of decode_ranges: every item of the iterator, in order, an Ok
\* range with the first (end - start) bytes of the buffer
decode_ranges_collect(it) ==
    [it EXCEPT !.res = [i \in 1..Len(it.res) |->
                           IF it.res[i].ok
                           THEN OkItem(it.res[i].start, it.res[i].end,
                                       Take(it.res[i].bytes,
                                            it.res[i].end - it.res[i].start))
                           ELSE it.res[i]]]

\* BaoTree::decode_ranges
decode_ranges(root_hash, input, rs, g) ==
    decode_ranges_collect(DecodeSliceIter(root_hash, input, rs, g))

-----------------------------------------------------------------------------
(* The inputs *)

\* the lengths of the data: whole chunks plus a tail
Tails == {0, 1, Pow2(CHUNK_SHIFT) - 1}
Sizes == {k * Pow2(CHUNK_SHIFT) + t : k \in 0..MaxChunks, t \in Tails}

GroupLogs == 0..MaxGroupLog

\* every range set with at most MaxBoundaries boundaries
ChunkUniverse == 0..(MaxChunks + RangeSlack)
RangeSets ==
    {r \in UNION {[1..n -> ChunkUniverse] : n \in 0..MaxBoundaries} :
        \A i \in 1..Len(r) : \A j \in 1..Len(r) : i < j => r[i] < r[j]}

\* the blobs, group exponents and queries of the encode/decode runs
CodecTails == {0, 1}
CodecSizes == {k * Pow2(CHUNK_SHIFT) + t : k \in 0..CodecChunks, t \in CodecTails}
CodecGroupLogs == 0..CodecGroupLog
CodecRangeSets ==
    {r \in UNION {[1..n -> 0..(CodecChunks + CodecSlack)] : n \in 0..CodecBoundaries} :
        \A i \in 1..Len(r) : \A j \in 1..Len(r) : i < j => r[i] < r[j]}
\* ... and of the runs over a damaged stream
TamperSizes == {k * Pow2(CHUNK_SHIFT) + t : k \in 0..TamperChunks, t \in CodecTails}
TamperRangeSets ==
    {r \in UNION {[1..n -> 0..(TamperChunks + CodecSlack)] : n \in 0..TamperBoundaries} :
        \A i \in 1..Len(r) : \A j \in 1..Len(r) : i < j => r[i] < r[j]}

IdleCanon == [pc |-> "idle", once |-> <<>>, twice |-> <<>>]

IdleTamper == [kind |-> "none", at |-> 0]
IdleDec == [pc |-> "idle", variant |-> "none", root |-> NoTerm, res |-> <<>>,
            target |-> <<>>, checked |-> <<>>, ops |-> <<>>, stack |-> <<>>,
            unread |-> 0]
IdleTrav == [pc |-> "idle", nodes |-> <<>>, infos |-> <<>>, min_level |-> 0,
             leaf |-> 0, range |-> <<0, 0>>]
IdleNum == [pc |-> "idle", checks |-> TRUE, size |-> {}, blocks |-> <<"None">>]

-----------------------------------------------------------------------------
(* Specification SpecCanon: canonicalize_range_owned applied to any range   *)
(* set and any data length, and applied again to its own result             *)

InitCanon ==
    /\ size \in Sizes
    /\ chunk_group_log = 0
    /\ ranges \in RangeSets
    /\ split_keeps_end \in BOOLEAN
    /\ canon = [pc |-> "init", once |-> <<>>, twice |-> <<>>]
    /\ prod = IdleProd
    /\ encoded = <<>>
    /\ tamper = IdleTamper
    /\ dec = IdleDec
    /\ trav = IdleTrav
    /\ num = IdleNum

Canonicalize ==
    /\ canon.pc = "init"
    /\ canon' = [canon EXCEPT !.pc = "once",
                              !.once = canonicalize_range_owned(ranges, size)]
    /\ UNCHANGED <<size, chunk_group_log, ranges, split_keeps_end, prod,
                   encoded, tamper, dec, trav, num>>

CanonicalizeAgain ==
    /\ canon.pc = "once"
    /\ canon' = [canon EXCEPT !.pc = "twice",
                              !.twice = canonicalize_range_owned(canon.once, size)]
    /\ UNCHANGED <<size, chunk_group_log, ranges, split_keeps_end, prod,
                   encoded, tamper, dec, trav, num>>

NextCanon == Canonicalize \/ CanonicalizeAgain

SpecCanon == InitCanon /\ [][NextCanon]_vars

\* the claims' vocabulary: the chunks of the data, membership in a range set
ChunksOf(sz) == (sz + Pow2(CHUNK_SHIFT) - 1) \div Pow2(CHUNK_SHIFT)
InRangeSet(r, x) == Cardinality({i \in 1..Len(r) : r[i] <= x}) % 2 = 1
Intersects(r, n) == \E x \in 0..(n - 1) : InRangeSet(r, x)
Indices == 0..(MaxChunks + RangeSlack + 2)

\* C8 as stated: the canonical range set is the query cut to [0, chunks), or
\* when that is empty the interval [max(0, chunks - 1), chunks); it holds no
\* chunk index >= chunks.
C8_TruncatedToChunks ==
    canon.pc \in {"once", "twice"} =>
        LET n == ChunksOf(size)
        IN  \A x \in Indices :
                InRangeSet(canon.once, x) <=>
                    IF Intersects(ranges, n)
                    THEN InRangeSet(ranges, x) /\ x < n
                    ELSE Max(0, n - 1) <= x /\ x < n

\* C8 as amended: when the query intersects [0, chunks) the canonical range
\* set agrees with it on every index below chunks and keeps no range that
\* starts at or beyond chunks (the range that straddles chunks is not cut);
\* otherwise it is the open-ended range from max(0, chunks - 1).
C8_AgreesBelowChunks ==
    canon.pc \in {"once", "twice"} =>
        LET n == ChunksOf(size)
            c == canon.once
        IN  IF Intersects(ranges, n)
            THEN /\ \A x \in 0..(n - 1) : InRangeSet(c, x) <=> InRangeSet(ranges, x)
                 /\ \A i \in 1..Len(c) : i % 2 = 1 => c[i] < n
                 /\ Cardinality({i \in 1..Len(c) : c[i] > n}) <= 1
            ELSE c = <<Max(0, n - 1)>>

\* a query that straddles the end of the data keeps indices >= chunks
C8_Witness ==
    /\ canon.pc = "once"
    /\ Intersects(ranges, ChunksOf(size))
    /\ \E x \in Indices : x >= ChunksOf(size) /\ InRangeSet(canon.once, x)

\* C9: canonicalising a canonical range set changes nothing: the boundaries
\* after the second pass are those after the first.
C9_Idempotent ==
    canon.pc = "twice" => canon.twice = canon.once

\* the fallback case: the query lies beyond the data, and the last-chunk
\* range was canonicalised again
C9_Witness ==
    /\ canon.pc = "twice"
    /\ size > 0
    /\ ~Intersects(ranges, ChunksOf(size))
    /\ ranges # <<>>
    /\ canon.twice = <<ChunksOf(size) - 1>>

-----------------------------------------------------------------------------
(* Specification SpecProducer: outboard_post_order_mem on data of any       *)
(* length with any chunk_group_log, one node of the walk per step, and      *)
(* blake3_hash on the same data                                             *)

ProdTree == new_with_start_chunk(size, chunk_group_log, 0)

InitProducer ==
    /\ size \in Sizes
    /\ chunk_group_log \in GroupLogs
    /\ ranges = <<>>
    /\ split_keeps_end = FALSE
    /\ canon = IdleCanon
    /\ prod = [pc |-> "walk", i |-> 1, stack |-> <<>>,
               data |-> DataSlice(0, size), outboard |-> <<>>,
               hash |-> NoTerm, blake3 |-> NoTerm]
    /\ encoded = <<>>
    /\ tamper = IdleTamper
    /\ dec = IdleDec
    /\ trav = IdleTrav
    /\ num = IdleNum

\* the loop body for the next node of the walk; popping an empty stack or
\* descending to a missing child panics
ProducerNode ==
    /\ prod.pc = "walk"
    /\ prod.i <= Len(iterate(ProdTree))
    /\ LET node == iterate(ProdTree)[prod.i]
           st   == outboard_node(ProdTree, node,
                                 [stack |-> prod.stack, data |-> prod.data,
                                  outboard |-> prod.outboard])
       IN  IF \/ (~is_leaf(node) /\ Len(prod.stack) < 2)
              \/ (~is_leaf(node) /\ right_descendant(node, filled_size(ProdTree)) = None)
           THEN prod' = [prod EXCEPT !.pc = "panicked"]
           ELSE prod' = [prod EXCEPT !.i = prod.i + 1, !.stack = st.stack,
                                     !.data = st.data, !.outboard = st.outboard]
    /\ UNCHANGED <<size, chunk_group_log, ranges, split_keeps_end, canon,
                   encoded, tamper, dec, trav, num>>

\* after the loop: pop the root, append the length
ProducerFinish ==
    /\ prod.pc = "walk"
    /\ prod.i > Len(iterate(ProdTree))
    /\ IF Len(prod.stack) # 1
       THEN prod' = [prod EXCEPT !.pc = "panicked"]
       ELSE prod' = [prod EXCEPT !.pc = "done",
                                 !.hash = Top(prod.stack),
                                 !.stack = Pop(prod.stack),
                                 !.outboard = Cat(prod.outboard, to_le_bytes(size))]
    /\ UNCHANGED <<size, chunk_group_log, ranges, split_keeps_end, canon,
                   encoded, tamper, dec, trav, num>>

\* blake3_hash of the same data
Blake3Hash ==
    /\ prod.pc = "done"
    /\ prod' = [prod EXCEPT !.pc = "hashed",
                            !.blake3 = blake3_hash(DataSlice(0, size))]
    /\ UNCHANGED <<size, chunk_group_log, ranges, split_keeps_end, canon,
                   encoded, tamper, dec, trav, num>>

NextProducer == ProducerNode \/ ProducerFinish \/ Blake3Hash

SpecProducer == InitProducer /\ [][NextProducer]_vars

\* the claims' vocabulary: the blocks of the data
BlocksOf(sz, g) ==
    Max(1, (sz + Pow2(CHUNK_SHIFT + g) - 1) \div Pow2(CHUNK_SHIFT + g))

\* byte i (from 0) of the little-endian encoding of n
RECURSIVE LeByte(_, _)
LeByte(n, i) == IF i = 0 THEN n % 256 ELSE LeByte(n \div 256, i - 1)

\* C1: the finished outboard is 64 * (blocks - 1) + 8 bytes long, blocks - 1
\* hash pairs followed by the data length as 8 little-endian bytes.
C1_OutboardLength ==
    prod.pc \in {"done", "hashed"} =>
        LET pairs == BlocksOf(size, chunk_group_log) - 1
            tail  == Drop(prod.outboard, 64 * pairs)
        IN  /\ BLen(prod.outboard) = 64 * pairs + 8
            /\ \A i \in 1..Len(Take(prod.outboard, 64 * pairs)) :
                   prod.outboard[i].k = "hash"
            /\ Len(tail) = 8
            /\ \A i \in 1..8 :
                   tail[i] = LitSeg(LeByte(size, i - 1))

\* an outboard of several pairs, written for blocks of several chunks
C1_Witness ==
    /\ prod.pc = "done"
    /\ chunk_group_log > 0
    /\ BlocksOf(size, chunk_group_log) >= 3
    /\ BLen(prod.outboard) = 64 * (BlocksOf(size, chunk_group_log) - 1) + 8

\* C2: for every chunk_group_log the producer's root is blake3_hash of the
\* data, which is also the producer's root for chunk_group_log 0.
C2_RootIsBlake3 ==
    prod.pc = "hashed" =>
        /\ prod.hash = prod.blake3
        /\ prod.hash = outboard_post_order_mem(size, 0).hash

\* a tree of several blocks of several chunks each
C2_Witness ==
    /\ prod.pc = "hashed"
    /\ chunk_group_log > 0
    /\ BlocksOf(size, chunk_group_log) >= 3
    /\ prod.hash = prod.blake3


-----------------------------------------------------------------------------
(* Specification Spec: a blob is encoded for a query and the stream is      *)
(* decoded, as the encoder returned it, by one of the three decoders        *)

Init ==
    /\ size \in CodecSizes
    /\ chunk_group_log \in CodecGroupLogs
    /\ ranges \in CodecRangeSets
    /\ split_keeps_end \in BOOLEAN
    /\ canon = IdleCanon
    /\ prod = IdleProd
    /\ encoded = <<>>
    /\ tamper = IdleTamper
    /\ dec = IdleDec
    /\ trav = IdleTrav
    /\ num = IdleNum

\* the receiver is given the root hash
StartDecoder(root_hash) ==
    dec' = [dec EXCEPT !.pc = "encoded", !.root = root_hash]

\* the stream is what the encoder returned
Encoded(enc) ==
    /\ enc.ok
    /\ encoded' = enc.res

\* outboard_post_order_mem, then encode_ranges
Encode ==
    /\ dec.pc = "idle"
    /\ StartDecoder(outboard_post_order_mem(size, chunk_group_log).hash)
    /\ Encoded(encode_ranges(size,
                              outboard_post_order_mem(size, chunk_group_log).outboard,
                              ranges, chunk_group_log))
    /\ UNCHANGED <<size, chunk_group_log, ranges, split_keeps_end, canon, prod,
                   tamper, trav, num>>

Decoded(variant, st) ==
    [pc |-> IF st.status = "panic" THEN "panicked" ELSE "done",
     variant |-> variant, root |-> dec.root, res |-> st.res,
     target |-> st.target, checked |-> st.checked, ops |-> st.ops,
     stack |-> st.stack, unread |-> BLen(st.input)]

DecodeRangesOld ==
    /\ dec.pc = "encoded"
    /\ dec' = Decoded("old", decode_ranges_old(dec.root, encoded, ranges, chunk_group_log))
    /\ UNCHANGED <<size, chunk_group_log, ranges, split_keeps_end, canon, prod,
                   encoded, tamper, trav, num>>

DecodeRangesInto ==
    /\ dec.pc = "encoded"
    /\ dec' = Decoded("into", decode_ranges_into(dec.root, encoded, ranges, chunk_group_log))
    /\ UNCHANGED <<size, chunk_group_log, ranges, split_keeps_end, canon, prod,
                   encoded, tamper, trav, num>>

DecodeRanges ==
    /\ dec.pc = "encoded"
    /\ dec' = Decoded("iter", decode_ranges(dec.root, encoded, ranges, chunk_group_log))
    /\ UNCHANGED <<size, chunk_group_log, ranges, split_keeps_end, canon, prod,
                   encoded, tamper, trav, num>>

Next ==
    \/ Encode
    \/ DecodeRangesOld
    \/ DecodeRangesInto
    \/ DecodeRanges

Spec == Init /\ [][Next]_vars

-----------------------------------------------------------------------------
(* Specification SpecTamper: between the encoder and the decoder one byte   *)
(* of the stream after the size header is altered, or the stream is cut     *)
(* short                                                                    *)

InitTamper ==
    /\ size \in TamperSizes
    /\ chunk_group_log \in CodecGroupLogs
    /\ ranges \in TamperRangeSets
    /\ split_keeps_end \in BOOLEAN
    /\ canon = IdleCanon
    /\ prod = IdleProd
    /\ encoded = <<>>
    /\ tamper = IdleTamper
    /\ dec = IdleDec
    /\ trav = IdleTrav
    /\ num = IdleNum

\* the first byte of every hash and of every chunk of data in the stream
RECURSIVE PieceStarts(_, _, _)
PieceStarts(bs, i, pos) ==
    IF i > Len(bs) THEN {}
    ELSE LET w == bs[i].hi - bs[i].lo
             inner == IF bs[i].k = "data"
                      THEN {pos + (c * Pow2(CHUNK_SHIFT) - bs[i].lo) :
                              c \in {c \in 0..ChunksOf(bs[i].hi) :
                                       /\ bs[i].lo < c * Pow2(CHUNK_SHIFT)
                                       /\ c * Pow2(CHUNK_SHIFT) < bs[i].hi}}
                      ELSE {}
         IN  (IF bs[i].k = "lit" THEN {} ELSE {pos} \cup inner)
             \cup PieceStarts(bs, i + 1, pos + w)

\* one byte after the size header is altered on the way
Alter ==
    /\ dec.pc = "encoded"
    /\ tamper.kind = "none"
    /\ \E p \in PieceStarts(encoded, 1, 0) :
        /\ encoded' = Cat(Cat(Take(encoded, p), <<AltSeg(p)>>), Drop(encoded, p + 1))
        /\ tamper' = [kind |-> "alter", at |-> p]
    /\ UNCHANGED <<size, chunk_group_log, ranges, split_keeps_end, canon, prod,
                   dec, trav, num>>

\* the stream ends early: inside the header, or before a hash or a chunk
Truncate ==
    /\ dec.pc = "encoded"
    /\ tamper.kind = "none"
    /\ \E p \in {HeaderCut} \cup PieceStarts(encoded, 1, 0) :
        /\ encoded' = Take(encoded, p)
        /\ tamper' = [kind |-> "truncate", at |-> p]
    /\ UNCHANGED <<size, chunk_group_log, ranges, split_keeps_end, canon, prod,
                   dec, trav, num>>

NextTamper ==
    \/ Encode
    \/ Alter
    \/ Truncate
    \/ DecodeRangesOld
    \/ DecodeRangesInto
    \/ DecodeRanges

SpecTamper == InitTamper /\ [][NextTamper]_vars

-----------------------------------------------------------------------------
(* Specification SpecTrav: the two reference walks and the byte range of a  *)
(* leaf, for any tree and any query                                         *)

InitTrav ==
    /\ size \in CodecSizes
    /\ chunk_group_log \in CodecGroupLogs
    /\ ranges \in CodecRangeSets
    /\ split_keeps_end \in BOOLEAN
    /\ canon = IdleCanon
    /\ prod = IdleProd
    /\ encoded = <<>>
    /\ tamper = IdleTamper
    /\ dec = IdleDec
    /\ trav = [IdleTrav EXCEPT !.pc = "init"]
    /\ num = IdleNum

\* the post-order walk over the whole tree
IterateReference ==
    /\ trav.pc = "init"
    /\ trav' = [trav EXCEPT !.pc = "post", !.nodes = iterate_reference(ProdTree)]
    /\ UNCHANGED <<size, chunk_group_log, ranges, split_keeps_end, canon, prod,
                   encoded, tamper, dec, num>>

\* the pre-order selective walk with the canonicalised query and any
\* min_level
IteratePartPreorderReference ==
    /\ trav.pc = "init"
    /\ \E min_level \in 0..MaxMinLevel :
        trav' = [trav EXCEPT
                   !.pc = "pre",
                   !.min_level = min_level,
                   !.infos = iterate_part_preorder_reference(
                                 ProdTree, canonical_or_last(ranges, size), min_level)]
    /\ UNCHANGED <<size, chunk_group_log, ranges, split_keeps_end, canon, prod,
                   encoded, tamper, dec, num>>

\* leaf_byte_range of one leaf of the tree
LeafByteRange ==
    /\ trav.pc = "init"
    /\ \E leaf \in {n \in 0..(filled_size(ProdTree) - 1) : is_leaf(n)} :
        trav' = [trav EXCEPT !.pc = "leaf", !.leaf = leaf,
                             !.range = leaf_byte_range(ProdTree, leaf)]
    /\ UNCHANGED <<size, chunk_group_log, ranges, split_keeps_end, canon, prod,
                   encoded, tamper, dec, num>>

NextTrav ==
    \/ IterateReference
    \/ IteratePartPreorderReference
    \/ LeafByteRange

SpecTrav == InitTrav /\ [][NextTrav]_vars

-----------------------------------------------------------------------------
(* Specification SpecBlocks: BaoTree::blocks of a u64 size and any group    *)
(* exponent up to 63, built with and without overflow checks                *)

\* the sizes: zero, every power of two, every run of one bits from the
\* lowest place or up to the highest, u64::MAX among them, and each of
\* these with the lowest bit set
U64Sizes ==
    LET runs == {{}} \cup {{k} : k \in 0..(U64_BITS - 1)}
                    \cup {0..k : k \in 0..(U64_BITS - 1)}
                    \cup {k..(U64_BITS - 1) : k \in 0..(U64_BITS - 1)}
    IN  runs \cup {x \cup {0} : x \in runs}

InitBlocks ==
    /\ size = 0
    /\ chunk_group_log \in 0..MaxGroupExp
    /\ ranges = <<>>
    /\ split_keeps_end = FALSE
    /\ canon = IdleCanon
    /\ prod = IdleProd
    /\ encoded = <<>>
    /\ tamper = IdleTamper
    /\ dec = IdleDec
    /\ trav = IdleTrav
    /\ \E checks \in BOOLEAN : \E x \in U64Sizes :
        num = [pc |-> "init", checks |-> checks, size |-> x, blocks |-> <<"None">>]

\* BaoTree::new(ByteNum(size), chunk_group_log).blocks()
Blocks ==
    /\ num.pc = "init"
    /\ num' = [num EXCEPT !.pc = "done",
                          !.blocks = BaoTree_blocks_u64(num.checks, num.size,
                                                        chunk_group_log)]
    /\ UNCHANGED <<size, chunk_group_log, ranges, split_keeps_end, canon, prod,
                   encoded, tamper, dec, trav>>

SpecBlocks == InitBlocks /\ [][Blocks]_vars

\* the claims' vocabulary for a decode run
Ran == dec.pc \in {"done", "panicked"}
Untouched == tamper.kind = "none"
BlockChunks == Pow2(chunk_group_log)
BlockBytes == Pow2(chunk_group_log) * Pow2(CHUNK_SHIFT)
\* the item or write holds the bytes of the data at its offset
AuthenticAt(start, bs) == bs = DataSlice(start, start + BLen(bs))
\* chunk x of the data lies in one of the delivered tuples
Delivered(x) ==
    \E i \in 1..Len(dec.res) :
        /\ dec.res[i].ok
        /\ dec.res[i].start <= x * Pow2(CHUNK_SHIFT)
        /\ x * Pow2(CHUNK_SHIFT) < dec.res[i].end
Ascending ==
    \A i \in 1..Len(dec.res) : \A j \in 1..Len(dec.res) :
        i < j => dec.res[i].start < dec.res[j].start

\* the blocks a query selects: those holding a chunk of the query that is a
\* chunk of the data, or the last block when there is none
SelectedBlocks ==
    IF Intersects(ranges, ChunksOf(size))
    THEN {x \div BlockChunks :
            x \in {x \in 0..(ChunksOf(size) - 1) : InRangeSet(ranges, x)}}
    ELSE {(Max(ChunksOf(size), 1) - 1) \div BlockChunks}

\* the tuples of the selected blocks, the two blocks of a leaf in one tuple
RECURSIVE SelectedTuples(_)
SelectedTuples(j) ==
    IF 2 * j > (Max(ChunksOf(size), 1) - 1) \div BlockChunks THEN <<>>
    ELSE LET here  == SelectedBlocks \cap {2 * j, 2 * j + 1}
             first == IF 2 * j \in here THEN 2 * j ELSE 2 * j + 1
             last  == IF 2 * j + 1 \in here THEN 2 * j + 1 ELSE 2 * j
             start == Min(first * BlockBytes, size)
             end   == Min((last + 1) * BlockBytes, size)
         IN  (IF here = {} THEN <<>>
              ELSE <<OkItem(start, end, DataSlice(start, end))>>)
             \o SelectedTuples(j + 1)

\* C3 as stated: decode_ranges_old of an untouched encoding for a non-empty
\* query R ends without an error and delivers exactly the chunks of R that
\* are chunks of the data, in ascending offset, byte-identical to the data.
C3_ExactSubRanges ==
    (Ran /\ dec.variant = "old" /\ Untouched /\ ~is_empty(ranges)) =>
        /\ dec.pc = "done"
        /\ \A i \in 1..Len(dec.res) :
              dec.res[i].ok /\ AuthenticAt(dec.res[i].start, dec.res[i].bytes)
        /\ Ascending
        /\ \A x \in 0..(ChunksOf(size) - 1) : Delivered(x) <=> InRangeSet(ranges, x)

\* C3 amended: decode_ranges_old of an untouched encoding for a non-empty
\* query R ends without an error and delivers exactly the blocks of 2^g
\* chunks that hold a chunk of R which is a chunk of the data (the last block
\* when there is none), the two blocks of a leaf in one tuple, in ascending
\* offset, byte-identical to the data.
C3_SelectedBlocksRoundTrip ==
    (Ran /\ dec.variant = "old" /\ Untouched /\ ~is_empty(ranges)) =>
        /\ dec.pc = "done"
        /\ dec.res = SelectedTuples(0)
        /\ Ascending

\* a query of a part of the data, at a group exponent above 0, delivered in
\* two or more tuples that hold chunks the query did not name
C3_Witness ==
    /\ Ran /\ dec.variant = "old" /\ Untouched /\ ~is_empty(ranges)
    /\ dec.pc = "done"
    /\ chunk_group_log > 0
    /\ Len(dec.res) >= 2
    /\ \E x \in 0..(ChunksOf(size) - 1) : Delivered(x) /\ ~InRangeSet(ranges, x)
    /\ \E x \in 0..(ChunksOf(size) - 1) : ~Delivered(x)

\* C4: when one byte of the stream after the size header was altered, every
\* decoder ends with a hash mismatch as its last item; every tuple and every
\* write before it holds the bytes of the data, and every half that was
\* accepted was read from the stream before the altered byte.
C4_AlterationDetected ==
    (Ran /\ tamper.kind = "alter") =>
        /\ dec.pc = "done"
        /\ Len(dec.res) >= 1
        /\ dec.res[Len(dec.res)] = ErrItem("HashMismatch")
        /\ \A i \in 1..(Len(dec.res) - 1) :
              dec.res[i].ok /\ AuthenticAt(dec.res[i].start, dec.res[i].bytes)
        /\ \A i \in 1..Len(dec.target) :
              AuthenticAt(dec.target[i].start, dec.target[i].bytes)
        /\ \A i \in 1..Len(dec.checked) :
              BLen(encoded) - dec.checked[i].rest <= tamper.at

\* a byte of a data half was altered after an earlier tuple was delivered
C4_Witness ==
    /\ Ran /\ tamper.kind = "alter"
    /\ \E i \in 1..Len(encoded) :
          encoded[i].k = "alt" /\ i > 1 /\ encoded[i - 1].k = "data"
    /\ Len(dec.res) >= 2
    /\ dec.res[1].ok
    /\ ~dec.res[Len(dec.res)].ok

RECURSIVE SubTerm(_, _)
\* hash h is the root hash or the hash of a node below it
SubTerm(h, top) ==
    \/ h = top
    \/ /\ top[1] = "parent"
       /\ (SubTerm(h, top[2]) \/ SubTerm(h, top[3]))

\* the half was compared, with success, against a hash of the trusted tree
Verified(c) ==
    /\ SubTerm(c.expected, dec.root)
    /\ c.expected = hash_block(c.chunk, c.bytes, c.is_root)

\* C5: in decode_ranges_old and decode_ranges_into, whatever was done to the
\* stream, every delivered tuple is made of halves, and every write to the
\* target is a half, whose hash was compared with success against a hash of
\* the tree under the trusted root.
C5_CheckedBeforeDelivery ==
    (Ran /\ dec.variant \in {"old", "into"}) =>
        /\ \A i \in 1..Len(dec.checked) : Verified(dec.checked[i])
        /\ \A i \in 1..Len(dec.target) :
              \E j \in 1..Len(dec.checked) :
                  /\ dec.checked[j].start = dec.target[i].start
                  /\ dec.checked[j].bytes = dec.target[i].bytes
        /\ \A i \in 1..Len(dec.res) :
              (dec.res[i].ok /\ dec.variant = "into") =>
                  \E j \in 1..Len(dec.target) :
                      /\ dec.target[j].start = dec.res[i].start
                      /\ BLen(dec.target[j].bytes) = dec.res[i].end - dec.res[i].start
        /\ \A i \in 1..Len(dec.res) :
              (dec.res[i].ok /\ dec.variant = "old") =>
                  \E j \in 1..Len(dec.checked) :
                      /\ dec.checked[j].start = dec.res[i].start
                      /\ \/ dec.res[i].bytes = dec.checked[j].bytes
                         \/ /\ j < Len(dec.checked)
                            /\ dec.res[i].bytes = Cat(dec.checked[j].bytes,
                                                      dec.checked[j + 1].bytes)

\* a run on an altered stream that delivered a tuple, or wrote a half,
\* before the mismatch
C5_Witness ==
    /\ Ran /\ dec.variant \in {"old", "into"}
    /\ tamper.kind = "alter"
    /\ Len(dec.res) >= 2
    /\ dec.res[1].ok
    /\ dec.res[Len(dec.res)] = ErrItem("HashMismatch")
    /\ (dec.variant = "into" => Len(dec.target) >= 1)

C7_EofSurfaced ==
    (Ran /\ tamper.kind = "truncate") =>
        /\ dec.pc = "done"
        /\ Len(dec.res) >= 1
        /\ dec.res[Len(dec.res)] = ErrItem("UnexpectedEof")

\* C10 as stated: for a non-empty blob and a query that names no chunk of
\* the data, decode_ranges_old of the untouched encoding delivers one tuple,
\* the last chunk of the data at offset (chunks - 1) * 1024.
C10_FinalChunk ==
    (Ran /\ dec.variant = "old" /\ Untouched /\ size > 0
         /\ ~Intersects(ranges, ChunksOf(size))) =>
        /\ dec.pc = "done"
        /\ dec.res = <<OkItem((ChunksOf(size) - 1) * Pow2(CHUNK_SHIFT), size,
                              DataSlice((ChunksOf(size) - 1) * Pow2(CHUNK_SHIFT), size))>>

\* C10 amended: for a non-empty blob and a query that names no chunk of the
\* data, decode_ranges_old of the untouched encoding delivers one tuple, the
\* last block of 2^g chunks of the data, at offset (blocks - 1) * 2^g * 1024.
C10_FinalBlock ==
    (Ran /\ dec.variant = "old" /\ Untouched /\ size > 0
         /\ ~Intersects(ranges, ChunksOf(size))) =>
        /\ dec.pc = "done"
        /\ dec.res = <<OkItem((BlocksOf(size, chunk_group_log) - 1) * BlockBytes, size,
                              DataSlice((BlocksOf(size, chunk_group_log) - 1) * BlockBytes,
                                        size))>>

\* a query past the end of a blob whose last block holds two chunks
C10_Witness ==
    /\ Ran /\ dec.variant = "old" /\ Untouched /\ size > 0
    /\ ~is_empty(ranges)
    /\ ~Intersects(ranges, ChunksOf(size))
    /\ chunk_group_log > 0
    /\ Len(dec.res) = 1
    /\ dec.res[1].end - dec.res[1].start > Pow2(CHUNK_SHIFT)

-----------------------------------------------------------------------------
(* The walks *)

\* the claims' vocabulary for a walk: the nodes of the tree, a node inside
\* another's sub-tree, a node wholly to the left of another
TreeNodes(tree) == 0..(filled_size(tree) - 1)
Below(a, b) ==
    /\ a # b
    /\ block_range(b)[1] <= block_range(a)[1]
    /\ block_range(a)[2] <= block_range(b)[2]
LeftOf(a, b) == block_range(a)[2] <= block_range(b)[1]
Yielded(seq) == {seq[i] : i \in 1..Len(seq)}
EachOnce(seq) == \A i \in 1..Len(seq) : \A j \in 1..Len(seq) : seq[i] = seq[j] => i = j
LeftRightSelf(seq) ==
    \A i \in 1..Len(seq) : \A j \in 1..Len(seq) :
        i < j => LeftOf(seq[i], seq[j]) \/ Below(seq[i], seq[j])
AllSealed(tree) == \A n \in TreeNodes(tree) : is_sealed(tree, n)
ContiguousWhenSealed(tree, seq) ==
    AllSealed(tree) =>
        /\ Len(seq) = blocks(tree) - 1
        /\ \A i \in 1..Len(seq) : node_post_order_offset(seq[i]) = i - 1

\* C11 as stated: the post-order full walk yields exactly the interior
\* nodes and the persisted leaves, no leaf that is not persisted, each
\* once, left then right then self, and numbers an all-sealed tree
\* 0..blocks-2
C11_PersistedLeavesOnly ==
    trav.pc = "post" =>
        /\ Yielded(trav.nodes) =
               {n \in TreeNodes(ProdTree) : ~is_leaf(n) \/ is_persisted(ProdTree, n)}
        /\ EachOnce(trav.nodes)
        /\ LeftRightSelf(trav.nodes)
        /\ ContiguousWhenSealed(ProdTree, trav.nodes)

\* C11 amended: the post-order full walk yields exactly the nodes of the
\* tree, the interior nodes and every leaf, the last leaf also when it is
\* not persisted, each once, left then right then self, and the post-order
\* numbers of an all-sealed tree are 0..blocks-2 in the order of the walk
C11_EveryNode ==
    trav.pc = "post" =>
        /\ Yielded(trav.nodes) = TreeNodes(ProdTree)
        /\ EachOnce(trav.nodes)
        /\ LeftRightSelf(trav.nodes)
        /\ ContiguousWhenSealed(ProdTree, trav.nodes)

C11_Witness ==
    /\ trav.pc = "post"
    /\ Len(trav.nodes) >= 3
    /\ \E i \in 1..Len(trav.nodes) :
        is_leaf(trav.nodes[i]) /\ ~is_persisted(ProdTree, trav.nodes[i])

-----------------------------------------------------------------------------
(* The producer and the numbering of its pairs *)

\* the producer has just handled node number k of its walk
ProducerStep == prod.pc = "walk" /\ prod'.pc = "walk" /\ prod'.i = prod.i + 1

\* C12: when the producer handles a persisted node n, post_order_offset(n)
\* is p, Stable if n is sealed and Unstable otherwise, where p is the number
\* of pairs written before, and the pair written for n, the two hashes
\* combined into n's hash, is bytes [64p, 64p+64) of the outboard; for a
\* leaf that is not persisted it is Skip and nothing is written; distinct
\* persisted nodes have distinct offsets, all in [0, blocks-1).
C12_OffsetIsPairsBefore ==
    [][ProducerStep =>
        LET node == iterate(ProdTree)[prod.i]
            off  == post_order_offset(ProdTree, node)
            p    == BLen(prod.outboard) \div 64
            h    == Top(prod'.stack)
        IN  /\ IF is_persisted(ProdTree, node)
               THEN /\ off = <<IF is_sealed(ProdTree, node)
                                 THEN "Stable" ELSE "Unstable", p>>
                    /\ BLen(prod.outboard) = 64 * p
                    /\ h[1] = "parent"
                    /\ Drop(prod'.outboard, 64 * p)
                           = Cat(as_bytes(h[2]), as_bytes(h[3]))
                    /\ p < blocks(ProdTree) - 1
               ELSE /\ off = <<"Skip">>
                    /\ prod'.outboard = prod.outboard
            /\ \A a \in TreeNodes(ProdTree) : \A b \in TreeNodes(ProdTree) :
                   /\ is_persisted(ProdTree, a) /\ is_persisted(ProdTree, b)
                   /\ a # b
                   => value(post_order_offset(ProdTree, a))
                          # value(post_order_offset(ProdTree, b))
    ]_vars

\* the producer has written the pair of a persisted node that is not
\* sealed, in a tree whose last leaf is not persisted
C12_Witness ==
    /\ prod.pc = "walk" /\ prod.i > 1
    /\ LET node == iterate(ProdTree)[prod.i - 1]
       IN  /\ ~is_leaf(node)
           /\ ~is_sealed(ProdTree, node)
           /\ post_order_offset(ProdTree, node)
                  = <<"Unstable", (BLen(prod.outboard) \div 64) - 1>>
           /\ node # root(ProdTree)
    /\ \E n \in TreeNodes(ProdTree) : post_order_offset(ProdTree, n) = <<"Skip">>

-----------------------------------------------------------------------------
(* The selective walk *)

\* the chunks of a leaf, two blocks from its first; the leaves a range set
\* selects and the nodes above them
LeafChunks(tree, leaf) ==
    (leaf * chunk_group_chunks(tree))..((leaf + 2) * chunk_group_chunks(tree) - 1)
SelectedLeaves(tree, rs) ==
    {n \in TreeNodes(tree) :
        is_leaf(n) /\ \E c \in LeafChunks(tree, n) : InRangeSet(rs, c)}
Ancestors(tree, leaves) ==
    {a \in TreeNodes(tree) : \E n \in leaves : Below(n, a)}
SelfLeftRight(seq) ==
    \A i \in 1..Len(seq) : \A j \in 1..Len(seq) :
        i < j => Below(seq[j], seq[i]) \/ LeftOf(seq[i], seq[j])
Emitted == [i \in 1..Len(trav.infos) |-> trav.infos[i].node]

-----------------------------------------------------------------------------
(* The root flag *)

\* the hash operations with is_root set among those that made a hash, and
\* the chunks a hash covers
RECURSIVE RootFlags(_)
RootFlags(t) ==
    IF t[1] = "chunk" THEN (IF t[4] THEN 1 ELSE 0)
    ELSE IF t[1] = "parent"
    THEN (IF t[4] THEN 1 ELSE 0) + RootFlags(t[2]) + RootFlags(t[3])
    ELSE 0
RECURSIVE Counters(_)
Counters(t) ==
    IF t[1] = "chunk" THEN {t[2]}
    ELSE IF t[1] = "parent" THEN Counters(t[2]) \cup Counters(t[3])
    ELSE {}
RECURSIVE Combinations(_)
Combinations(t) ==
    IF t[1] = "parent" THEN {t} \cup Combinations(t[2]) \cup Combinations(t[3])
    ELSE {}
InsideBlock(t, g) == Cardinality({c \div Pow2(g) : c \in Counters(t)}) = 1
RootOperation(h, sz) ==
    /\ RootFlags(h) = 1
    /\ h[4] = TRUE
    /\ h[1] = IF ChunksOf(sz) > 1 THEN "parent" ELSE "chunk"
FirstOnly(ops, root_hash) ==
    /\ Len(ops) >= 1
    /\ ops[1].is_root
    /\ ops[1].expected = root_hash
    /\ \A i \in 2..Len(ops) : ~ops[i].is_root

\* C14 as stated: the producer and blake3_hash invoke exactly one hash
\* operation with is_root set, the one that makes the returned root, a
\* parent_cv when there is more than one chunk and the chunk hash
\* otherwise; every combination inside a block passes false; the decoder
\* passes is_root set in exactly one hash computation, the first, compared
\* with the trusted root.
C14_NoRootInsideBlock ==
    dec.pc = "done" =>
        /\ RootOperation(dec.root, size)
        /\ RootOperation(blake3_hash(DataSlice(0, size)), size)
        /\ \A t \in Combinations(dec.root) :
               InsideBlock(t, chunk_group_log) => t[4] = FALSE
        /\ FirstOnly(dec.ops, dec.root)

\* C14 amended: as stated, but the combinations inside a block that pass
\* false are all of them except the root operation, which is the last
\* combination inside the block when the tree is one block of several
\* chunks.
C14_RootFlagOnce ==
    dec.pc = "done" =>
        /\ RootOperation(dec.root, size)
        /\ RootOperation(blake3_hash(DataSlice(0, size)), size)
        /\ \A t \in Combinations(dec.root) :
               InsideBlock(t, chunk_group_log) /\ t # dec.root => t[4] = FALSE
        /\ FirstOnly(dec.ops, dec.root)

\* a decoder run of several hash computations over a tree of several
\* blocks of several chunks
C14_Witness ==
    /\ dec.pc = "done"
    /\ chunk_group_log > 0
    /\ BlocksOf(size, chunk_group_log) >= 3
    /\ Len(dec.ops) >= 4
    /\ dec.ops[1].kind = "parent"
    /\ \E t \in Combinations(dec.root) : InsideBlock(t, chunk_group_log)

-----------------------------------------------------------------------------
(* The outboard of 2049 bytes *)

\* the producer has finished the outboard of 2049 bytes in blocks of one chunk
Outboard2049 == size = 2049 /\ chunk_group_log = 0 /\ prod.pc = "done"

\* C15 as stated: 2049 bytes at chunk_group_log 0 are 3 blocks, and the
\* produced outboard is one hash pair and the size field, 72 bytes.
C15_OnePair72Bytes ==
    Outboard2049 =>
        /\ blocks(ProdTree) = 3
        /\ outboard_hash_pairs(ProdTree) = 1
        /\ outboard_size(size, chunk_group_log) = 72
        /\ BLen(prod.outboard) = 72

\* C15 amended: 2049 bytes at chunk_group_log 0 are 3 blocks, and the
\* produced outboard is two hash pairs and the size field, 136 bytes.
C15_TwoPairs136Bytes ==
    Outboard2049 =>
        /\ blocks(ProdTree) = 3
        /\ outboard_hash_pairs(ProdTree) = 2
        /\ outboard_size(size, chunk_group_log) = 136
        /\ BLen(prod.outboard) = 136
        /\ \A i \in 1..Len(Take(prod.outboard, 128)) : prod.outboard[i].k = "hash"
        /\ Drop(prod.outboard, 128) = to_le_bytes(2049)

C15_Witness == Outboard2049 /\ Len(prod.outboard) > 0

-----------------------------------------------------------------------------
(* The framing of the stream *)

\* what the encoder appends for one node of the walk, the hash bytes in it
\* and the bytes of the data from a to b in it
Appended(info) ==
    encode_node(ProdTree, outboard_post_order_mem(size, chunk_group_log).outboard,
                info, [res |-> <<>>, ok |-> TRUE]).res
RECURSIVE HashBytes(_, _)
HashBytes(bs, i) ==
    IF i > Len(bs) THEN 0
    ELSE (IF bs[i].k = "hash" THEN bs[i].hi - bs[i].lo ELSE 0) + HashBytes(bs, i + 1)
RECURSIVE DataBytes(_, _, _, _)
DataBytes(bs, i, a, b) ==
    IF i > Len(bs) THEN 0
    ELSE (IF bs[i].k = "data"
          THEN Max(0, Min(bs[i].hi, b) - Max(bs[i].lo, a)) ELSE 0)
         + DataBytes(bs, i + 1, a, b)
\* what the decoder read for a pair at a node, or for the half that starts
\* at a chunk
RECURSIVE ReadAt(_, _, _, _)
ReadAt(ops, i, kind, at) ==
    IF i > Len(ops) THEN 0
    ELSE (IF ops[i].kind = kind /\ ops[i].at = at THEN ops[i].len ELSE 0)
         + ReadAt(ops, i + 1, kind, at)
RECURSIVE ReadInAll(_, _)
ReadInAll(ops, i) ==
    IF i > Len(ops) THEN 0 ELSE ops[i].len + ReadInAll(ops, i + 1)
SelectiveWalk == iterate_part_preorder_ref(ProdTree, canonical_or_last(ranges, size), 0)

\* C16: on a stream as encoded, for every node of the selective walk the
\* encoder appends a hash pair (post_order_offset is not Skip) exactly when
\* the decoder reads one (the node is persisted), and the bytes of a leaf
\* half the encoder appends are as many as the decoder reads for that
\* half; the decoder ends without error having read every byte of the
\* stream, none missing and none left.
C16_FramingAgrees ==
    Ran /\ Untouched =>
        /\ dec.pc = "done"
        /\ \A i \in 1..Len(dec.res) : dec.res[i].ok
        /\ \A i \in 1..Len(SelectiveWalk) :
               LET info == SelectiveWalk[i]
                   n    == info.node
                   mid_b == bytes(ProdTree, mid(n))
               IN  /\ IsSome(value(post_order_offset(ProdTree, n)))
                          <=> is_persisted(ProdTree, n)
                   /\ HashBytes(Appended(info), 1)
                          = IF is_persisted(ProdTree, n) THEN 64 ELSE 0
                   /\ ReadAt(dec.ops, 1, "parent", n) = HashBytes(Appended(info), 1)
                   /\ is_leaf(n) =>
                          /\ ReadAt(dec.ops, 1, "half", chunk_num(ProdTree, n))
                                 = DataBytes(Appended(info), 1, 0, mid_b)
                          /\ ReadAt(dec.ops, 1, "half", chunk_num(ProdTree, n + 1))
                                 = DataBytes(Appended(info), 1, mid_b, size)
        /\ ReadInAll(dec.ops, 1) + 8 = BLen(encoded)
        /\ dec.unread = 0

\* a run over a tree whose last leaf is not persisted, with a leaf of which
\* only the right half is asked for
C16_Witness ==
    /\ Ran /\ Untouched /\ dec.variant = "into"
    /\ \E i \in 1..Len(SelectiveWalk) :
           is_leaf(SelectiveWalk[i].node) /\ ~is_persisted(ProdTree, SelectiveWalk[i].node)
    /\ \E i \in 1..Len(SelectiveWalk) :
           /\ is_leaf(SelectiveWalk[i].node)
           /\ is_empty(SelectiveWalk[i].l_range)
           /\ ReadAt(dec.ops, 1, "half", chunk_num(ProdTree, SelectiveWalk[i].node + 1)) > 0
    /\ Len(dec.ops) >= 4

-----------------------------------------------------------------------------
(* The decoder's stack *)

\* the hashes the pair read at node m gave to its left (side 1) or right
\* (side 2) child, the nodes directly above n, and the hashes n can have
\* been given: by the pair of the node above it, or the trusted root
PairAt(ops, m, side) ==
    {IF side = 1 THEN ops[j].left ELSE ops[j].right :
        j \in {j \in 1..Len(ops) : ops[j].kind = "parent" /\ ops[j].at = m}}
ParentsOf(tree, n) ==
    {m \in TreeNodes(tree) :
        /\ Below(n, m)
        /\ \A k \in TreeNodes(tree) : Below(n, k) => k = m \/ Below(m, k)}
AssignedTo(tree, ops, n) ==
    IF n = root(tree) THEN {dec.root}
    ELSE UNION {PairAt(ops, m, IF n < m THEN 1 ELSE 2) : m \in ParentsOf(tree, n)}
\* the leaf of the half that starts at block b, and the hashes it can have
\* been given: by the pair of its leaf, or as the leaf itself when the leaf
\* is its left half alone
AssignedToHalf(tree, ops, b) ==
    LET leaf == b - (b % 2)
    IN  IF is_persisted(tree, leaf) THEN PairAt(ops, leaf, 1 + (b % 2))
        ELSE AssignedTo(tree, ops, leaf)

\* C17: on a stream as encoded no decoder pops an empty stack; the hash
\* popped for a pair is the one the pair of the node above gave to this
\* child, the hash popped for a leaf half the one given to that half, the
\* first hash popped the trusted root; and the stack is empty when the walk
\* ends without error.
C17_DecoderStack ==
    Ran /\ Untouched =>
        /\ dec.pc = "done"
        /\ Len(dec.ops) >= 1 /\ dec.ops[1].expected = dec.root
        /\ \A i \in 1..Len(dec.ops) :
               LET op == dec.ops[i]
               IN  IF op.kind = "parent"
                   THEN op.expected \in AssignedTo(ProdTree, dec.ops, op.at)
                   ELSE op.expected
                           \in AssignedToHalf(ProdTree, dec.ops, op.at \div BlockChunks)
        /\ (\A i \in 1..Len(dec.res) : dec.res[i].ok) => dec.stack = <<>>

\* a run that popped the hashes of both children of a node below the root
C17_Witness ==
    /\ Ran /\ Untouched /\ dec.variant = "old"
    /\ dec.stack = <<>>
    /\ \E i \in 1..Len(dec.ops) : \E j \in 1..Len(dec.ops) : \E k \in 1..Len(dec.ops) :
           /\ dec.ops[k].kind = "parent" /\ dec.ops[k].at # root(ProdTree)
           /\ ~is_leaf(dec.ops[k].at)
           /\ k < i /\ i < j
           /\ dec.ops[i].expected = dec.ops[k].left
           /\ dec.ops[j].expected = dec.ops[k].right

-----------------------------------------------------------------------------
(* The producer's stack *)

\* the producer is about to handle a branch node; it is past the last node
BeforeBranch ==
    /\ prod.pc = "walk" /\ prod.i <= Len(iterate(ProdTree))
    /\ ~is_leaf(iterate(ProdTree)[prod.i])
AfterWalk == prod.pc = "walk" /\ prod.i > Len(iterate(ProdTree))

\* C18: whenever the producer's walk reaches a branch node the stack holds
\* at least two hashes, so neither pop fails; after the walk it holds
\* exactly one hash, and that hash is the root returned.
C18_ProducerStack ==
    /\ [](/\ prod.pc # "panicked"
          /\ BeforeBranch => Len(prod.stack) >= 2
          /\ AfterWalk => Len(prod.stack) = 1)
    /\ [][AfterWalk => prod'.pc = "done" /\ prod.stack = <<prod'.hash>>]_vars

\* the producer has returned the root of a tree of several branch nodes
C18_Witness ==
    /\ prod.pc = "done"
    /\ prod.hash # NoTerm
    /\ Cardinality({n \in TreeNodes(ProdTree) : ~is_leaf(n)}) >= 3

-----------------------------------------------------------------------------
(* The side ranges of the selective walk *)

\* C19: every node the selective walk emits for the canonicalised query has
\* a non-empty l_range or a non-empty r_range, and no decoder run over the
\* stream as encoded fails the assertion `tl || tr` at a leaf.
C19_OneSideNonEmpty ==
    Ran /\ Untouched =>
        /\ dec.pc = "done"
        /\ \A i \in 1..Len(SelectiveWalk) :
               ~is_empty(SelectiveWalk[i].l_range) \/ ~is_empty(SelectiveWalk[i].r_range)

\* decode_ranges_old has passed the assertion at a leaf with one side empty
\* and at a leaf with none empty
C19_Witness ==
    /\ Ran /\ Untouched /\ dec.variant = "old"
    /\ \E i \in 1..Len(SelectiveWalk) :
           /\ is_leaf(SelectiveWalk[i].node)
           /\ is_empty(SelectiveWalk[i].l_range)
    /\ \E i \in 1..Len(SelectiveWalk) :
           /\ is_leaf(SelectiveWalk[i].node)
           /\ ~is_empty(SelectiveWalk[i].l_range)
           /\ ~is_empty(SelectiveWalk[i].r_range)

-----------------------------------------------------------------------------
(* The bytes of a leaf *)

\* C20 as stated: leaf_byte_range(L) is the byte range from L * 2^(10+g) to
\* min(size, (L + 1) * 2 * 2^(10+g)).
C20_EndTwiceNext ==
    trav.pc = "leaf" =>
        trav.range = <<trav.leaf * Pow2(CHUNK_SHIFT + chunk_group_log),
                       Min(size, (trav.leaf + 1) * 2 * Pow2(CHUNK_SHIFT + chunk_group_log))>>

\* C20 amended: leaf_byte_range(L) is the byte range from L * 2^(10+g) to
\* min(size, (L + 2) * 2^(10+g)), the two blocks L and L + 1 cut to the
\* data.
C20_TwoBlocks ==
    trav.pc = "leaf" =>
        trav.range = <<trav.leaf * Pow2(CHUNK_SHIFT + chunk_group_log),
                       Min(size, (trav.leaf + 2) * Pow2(CHUNK_SHIFT + chunk_group_log))>>

\* a leaf after the first whose two blocks end before the data does
C20_Witness ==
    /\ trav.pc = "leaf"
    /\ trav.leaf >= 2
    /\ trav.range[2] < size
    /\ trav.range[2] - trav.range[1] = 2 * Pow2(CHUNK_SHIFT + chunk_group_log)

-----------------------------------------------------------------------------
(* The block count at full width *)

\* the claims' vocabulary for numbers as sets of one bits: a < b, n * 2^k,
\* n - 1, and n = max(1, ceil(x / 2^k)), the least n >= 1 with n * 2^k >= x
BitsLess(a, b) ==
    \E k \in b \ a : \A j \in (a \cup b) : j > k => (j \in a <=> j \in b)
BitsTimesPow2(n, k) == {i + k : i \in n}
BitsMinusOne(n) ==
    LET low == CHOOSE k \in n : \A j \in n : k <= j
    IN  (n \ {low}) \cup 0..(low - 1)
IsBlockCount(n, x, k) ==
    /\ n # {}
    /\ BitsLess(BitsTimesPow2(BitsMinusOne(n), k), x) \/ (x = {} /\ n = {0})
    /\ ~BitsLess(BitsTimesPow2(n, k), x)

-----------------------------------------------------------------------------
(* The full flag of the selective walk *)

\* the chunks of a node's blocks, a range set that holds them all, and the
\* nodes emitted below a node
NodeChunks(tree, n) ==
    (block_range(n)[1] * chunk_group_chunks(tree))
        ..(block_range(n)[2] * chunk_group_chunks(tree) - 1)
Covers(rs, tree, n) == \A c \in NodeChunks(tree, n) : InRangeSet(rs, c)
EmittedBelow(n) == {m \in Yielded(Emitted) : Below(m, n)}
ChildEmitted(child, side) ==
    IsSome(child) => (Unwrap(child) \in Yielded(Emitted) <=> ~is_empty(side))

=============================================================================
